---- MODULE Spec2Model ----
(***************************************************************************)
(* Triangular arbitrage scanner: the four websocket connectors             *)
(* (src/exchanges/*.rs), the shared price store (src/ws_manager.rs) and    *)
(* the cycle scanner (src/logic.rs).                                       *)
(*                                                                         *)
(* Strings whose characters the code inspects (symbols, currency codes,    *)
(* exchange names) are sequences of one-character strings.  An f64 is      *)
(* kept bit for bit: sign, 53-bit mantissa and exponent, or one of the     *)
(* infinities, or NaN; its arithmetic rounds to nearest, ties to even.     *)
(***************************************************************************)
EXTENDS Integers, Sequences, FiniteSets, TLC

(* ------------------------------ bounds -------------------------------- *)
\* events the environment delivers in one behaviour: connect results, failed
\* token requests, inbound frames, read errors and ends of stream, scan requests
MaxEvents == 4
\* the same, in the runs in which only two of the servers answer
PairEvents == 5
\* concurrent readers
NumReaders == 1
\* scans run on one input
MaxScans == 2
\* events delivered in the runs in which writes on the sockets may fail
WireEvents == 3
\* events delivered in the runs checked under the runtime's scheduling
LiveEvents == 3
\* events delivered in the runs of the reconnect loops on their own
BackoffEvents == 8

(* ------------------------------ strings ------------------------------- *)
\* the characters used, in byte order
Chars == <<"-", "/", "A", "B", "C", "D", "E", "G", "H", "I", "K", "N", "O",
           "R", "S", "T", "U", "W", "X", "Y", "_", "a", "b", "c", "d", "e",
           "g", "h", "i", "k", "n", "o", "r", "s", "t", "u", "w", "x", "y">>

CharRank(c) == CHOOSE i \in 1..Len(Chars) : Chars[i] = c

\* char::to_uppercase / to_lowercase on the characters used
UpperChar(c) ==
  CASE c = "a" -> "A" [] c = "b" -> "B" [] c = "c" -> "C" [] c = "d" -> "D"
    [] c = "e" -> "E" [] c = "g" -> "G" [] c = "h" -> "H" [] c = "i" -> "I"
    [] c = "k" -> "K" [] c = "n" -> "N" [] c = "o" -> "O" [] c = "r" -> "R"
    [] c = "s" -> "S" [] c = "t" -> "T" [] c = "u" -> "U" [] c = "w" -> "W"
    [] c = "x" -> "X" [] c = "y" -> "Y" [] OTHER -> c

LowerChar(c) ==
  CASE c = "A" -> "a" [] c = "B" -> "b" [] c = "C" -> "c" [] c = "D" -> "d"
    [] c = "E" -> "e" [] c = "G" -> "g" [] c = "H" -> "h" [] c = "I" -> "i"
    [] c = "K" -> "k" [] c = "N" -> "n" [] c = "O" -> "o" [] c = "R" -> "r"
    [] c = "S" -> "s" [] c = "T" -> "t" [] c = "U" -> "u" [] c = "W" -> "w"
    [] c = "X" -> "x" [] c = "Y" -> "y" [] OTHER -> c

to_uppercase(s) == [i \in 1..Len(s) |-> UpperChar(s[i])]

to_lowercase(s) == [i \in 1..Len(s) |-> LowerChar(s[i])]

\* str::ends_with
ends_with(s, suf) ==
  /\ Len(s) >= Len(suf)
  /\ SubSeq(s, Len(s) - Len(suf) + 1, Len(s)) = suf

\* str::trim_end_matches: strips the suffix repeatedly
RECURSIVE trim_end_matches(_, _)
trim_end_matches(s, suf) ==
  IF Len(suf) > 0 /\ ends_with(s, suf)
  THEN trim_end_matches(SubSeq(s, 1, Len(s) - Len(suf)), suf)
  ELSE s

\* str::split(sep).collect(): the parts between the separators
RECURSIVE split(_, _)
split(s, sep) ==
  IF \E i \in 1..Len(s) : s[i] = sep
  THEN LET i == CHOOSE k \in 1..Len(s) :
                  s[k] = sep /\ \A m \in 1..(k - 1) : s[m] # sep
       IN  <<SubSeq(s, 1, i - 1)>> \o split(SubSeq(s, i + 1, Len(s)), sep)
  ELSE <<s>>

\* Ord for String: byte-wise lexicographic order
RECURSIVE StrLess(_, _)
StrLess(s, t) ==
  IF Len(t) = 0 THEN FALSE
  ELSE IF Len(s) = 0 THEN TRUE
  ELSE IF s[1] # t[1] THEN CharRank(s[1]) < CharRank(t[1])
  ELSE StrLess(Tail(s), Tail(t))

(* --------------------------- wide naturals ---------------------------- *)
\* The 53-bit mantissas of f64 values and their products do not fit the
\* integers of TLC: naturals are kept in limbs of 14 bits (base 16384),
\* least significant first, without a leading zero limb (<<>> is 0).  The
\* routines work limb by limb without recursion over the limbs, which keeps
\* the evaluation shallow.
Abs(n) == IF n < 0 THEN -n ELSE n

Min(a, b) == IF a < b THEN a ELSE b

Max(a, b) == IF a < b THEN b ELSE a

Sgn(n) == IF n < 0 THEN -1 ELSE IF n > 0 THEN 1 ELSE 0

\* limb j of p, zero outside p
Limb(p, j) == IF 1 <= j /\ j <= Len(p) THEN p[j] ELSE 0

\* p without leading zero limbs
BigStrip(p) ==
  LET used == {k \in 1..Len(p) : p[k] # 0}
  IN  IF used = {} THEN <<>>
      ELSE SubSeq(p, 1, CHOOSE k \in used : \A j \in used : j <= k)

\* the natural whose column k (of weight 16384^(k-1), k in 1..n) holds
\* c[k] < 2^31: every column hands what exceeds a limb to the two columns
\* above it, twice, which leaves columns of at most 16384 + 1; the carries
\* of one that remain are settled by looking for the column that generates
\* each of them.  (SubSeq has the sequence built once.)
Carry(c, n) ==
  LET col(k) == IF 1 <= k /\ k <= n THEN c[k] ELSE 0
      once == SubSeq([k \in 1..n + 2 |->
                        (col(k) % 16384) + ((col(k - 1) \div 16384) % 16384)
                          + (col(k - 2) \div 268435456)], 1, n + 2)
      twice == SubSeq([k \in 1..n + 2 |->
                         (once[k] % 16384) + (IF k > 1 THEN once[k - 1] \div 16384 ELSE 0)],
                      1, n + 2)
      carry_in(k) ==
        \E j \in 1..k - 1 : twice[j] >= 16384 /\ \A i \in j + 1..k - 1 : twice[i] = 16383
      settled(t) ==
        IF \A k \in 1..n + 2 : t[k] < 16384 THEN t
        ELSE [k \in 1..n + 2 |-> (t[k] + (IF carry_in(k) THEN 1 ELSE 0)) % 16384]
  IN  BigStrip(settled(twice))

\* the limbs of the natural n < 2^31
BigOf(n) == BigStrip(<<n % 16384, (n \div 16384) % 16384, n \div 268435456>>)

\* p + q
BigAdd(p, q) ==
  LET n == Max(Len(p), Len(q))
  IN  Carry([k \in 1..n |-> Limb(p, k) + Limb(q, k)], n)

\* p - q for p >= q: p plus the complement of q on the limbs of p, less the
\* limb above them that the sum then holds
BigSub(p, q) ==
  LET n == Len(p)
      sum(t) == BigStrip(SubSeq(t, 1, n))
  IN  sum(Carry([k \in 1..n |->
                   p[k] + (16383 - Limb(q, k)) + (IF k = 1 THEN 1 ELSE 0)], n))

\* p < q
BigLess(p, q) ==
  IF Len(p) # Len(q) THEN Len(p) < Len(q)
  ELSE \E k \in 1..Len(p) : p[k] < q[k] /\ \A j \in k + 1..Len(p) : p[j] = q[j]

\* p * k for a natural k < 2^17
BigMulInt(p, k) == Carry([j \in 1..Len(p) |-> p[j] * k], Len(p))

\* p * q for q of four limbs at most (a mantissa)
BigMul(p, q) ==
  LET n == Len(p) + 3
  IN  Carry([k \in 1..n |->
               (Limb(p, k) * Limb(q, 1)) + (Limb(p, k - 1) * Limb(q, 2))
                 + (Limb(p, k - 2) * Limb(q, 3)) + (Limb(p, k - 3) * Limb(q, 4))], n)

\* p * 2^k: whole limbs and r bits more
BigShl(p, k) ==
  LET o == k \div 14
      r == k % 14
  IN  BigStrip([j \in 1..Len(p) + o + 1 |->
                  ((Limb(p, j - o) % (2 ^ (14 - r))) * (2 ^ r))
                    + (Limb(p, j - o - 1) \div (2 ^ (14 - r)))])

\* p / 2^k, rounded down
BigShr(p, k) ==
  LET o == k \div 14
      r == k % 14
  IN  BigStrip([j \in 1..Max(Len(p) - o, 0) |->
                  (Limb(p, j + o) \div (2 ^ r)) + ((Limb(p, j + o + 1) % (2 ^ r)) * (2 ^ (14 - r)))])

\* bit i of p (bit 0 is the lowest)
BigBit(p, i) == (Limb(p, (i \div 14) + 1) \div (2 ^ (i % 14))) % 2

\* the number of bits of p
BitLen(p) ==
  IF p = <<>> THEN 0
  ELSE (14 * (Len(p) - 1))
         + (CHOOSE b \in 1..14 : 2 ^ (b - 1) <= p[Len(p)] /\ p[Len(p)] < 2 ^ b)

\* p / 2^k rounded to the nearest natural, ties to even; `lost` says that p
\* stands for a value slightly above p (bits already dropped below it)
ShrRound(p, k, lost) ==
  IF k = 0 THEN p
  ELSE LET half == BigBit(p, k - 1) = 1
           below == lost \/ BigShl(BigShr(p, k - 1), k - 1) # p
           odd == BigBit(p, k) = 1
           rounded(q) == IF half /\ (below \/ odd) THEN BigAdd(q, <<1>>) ELSE q
       IN  rounded(BigShr(p, k))

\* one step of long division: the quotient digit and the remainder of r by
\* d, for r < 16384 * d and d of four limbs with the top one at least 8192;
\* the digit is estimated from the leading limbs (never too low, at most 2
\* too high) and corrected
BigDivStep(r, d) ==
  LET est == Min(16383, ((Limb(r, 5) * 16384) + Limb(r, 4)) \div d[4])
      settle(q, t) ==
        IF ~BigLess(r, t) THEN [q |-> q, r |-> BigSub(r, t)]
        ELSE IF ~BigLess(r, BigSub(t, d))
        THEN [q |-> q - 1, r |-> BigSub(r, BigSub(t, d))]
        ELSE [q |-> q - 2, r |-> BigSub(r, BigSub(BigSub(t, d), d))]
  IN  settle(est, BigMulInt(d, est))

\* quotient and remainder of r * 16384^n by d (r < d, d as for BigDivStep):
\* n steps, each on the remainder of the one before with a zero limb brought
\* down; q holds the quotient digits found so far
RECURSIVE BigDivMod(_, _, _, _)
BigDivMod(r, d, n, q) ==
  IF n = 0 THEN [q |-> BigStrip(q), r |-> r]
  ELSE LET next(st) == BigDivMod(st.r, d, n - 1, <<st.q>> \o q)
       IN  next(BigDivStep(IF r = <<>> THEN r ELSE <<0>> \o r, d))

(* -------------------------------- f64 --------------------------------- *)
\* An f64 is [k, s, m, e]: the value s * m * 2^e with sign s and a 53-bit
\* mantissa 2^52 <= m < 2^53 (k = "fin"; zero has s = 0 and m = <<>>), an
\* infinity of sign s (k = "inf") or NaN (k = "nan").  Subnormals and overflow
\* are outside the values the model computes with.
Fin(s, m, e) == [k |-> "fin", s |-> s, m |-> m, e |-> e]

Zero == Fin(0, <<>>, 0)
Inf == [k |-> "inf", s |-> 1, m |-> <<>>, e |-> 0]
NegInf == [k |-> "inf", s |-> -1, m |-> <<>>, e |-> 0]
NaN == [k |-> "nan", s |-> 0, m |-> <<>>, e |-> 0]

is_finite(x) == x.k = "fin"
is_nan(x) == x.k = "nan"

\* x > 0.0 and x <= 0.0: both false for NaN, +inf is > 0.0
GtZero(x) == x.s > 0

\* variant: x < 0.0 where the code tests x <= 0.0
LtZero(x) == x.s < 0

LeZero(x) == x.k # "nan" /\ x.s <= 0

\* f64 values written out as sign, 53-bit mantissa and exponent: the values
\* of the literals 1.0, 2.0, 3.0, 4.0, 5.0, 7.0, 9.0, 25.0, 50.0, 100.0,
\* 150.0, -1.0 and -1000.0, and the f64 nearest to 1/2, 1/3, 1/4, 1/5, 1/10
One == Fin(1, <<0, 0, 0, 1024>>, -52)
Two == Fin(1, <<0, 0, 0, 1024>>, -51)
Three == Fin(1, <<0, 0, 0, 1536>>, -51)
Four == Fin(1, <<0, 0, 0, 1024>>, -50)
Five == Fin(1, <<0, 0, 0, 1280>>, -50)
Seven == Fin(1, <<0, 0, 0, 1792>>, -50)
Nine == Fin(1, <<0, 0, 0, 1152>>, -49)
TwentyFive == Fin(1, <<0, 0, 0, 1600>>, -48)
Fifty == Fin(1, <<0, 0, 0, 1600>>, -47)
Hundred == Fin(1, <<0, 0, 0, 1600>>, -46)
HundredFifty == Fin(1, <<0, 0, 0, 1200>>, -45)
MinusOne == Fin(-1, <<0, 0, 0, 1024>>, -52)
MinusThousand == Fin(-1, <<0, 0, 0, 2000>>, -43)
Half == Fin(1, <<0, 0, 0, 1024>>, -53)
Third == Fin(1, <<5461, 5461, 5461, 1365>>, -54)
Quarter == Fin(1, <<0, 0, 0, 1024>>, -54)
Fifth == Fin(1, <<6554, 9830, 6553, 1638>>, -55)
Tenth == Fin(1, <<6554, 9830, 6553, 1638>>, -56)

\* 23.76 and 0.21043771043771042, the f64 next to 1 / (23.76 * 0.2)
Price23_76 == Fin(1, <<13763, 12451, 10485, 1520>>, -48)
PriceNearInverse == Fin(1, <<10536, 6233, 14839, 1723>>, -55)

\* the f64 nearest to s * p * 2^e, ties to even; `lost` as for ShrRound
Norm(s, p, e, lost) ==
  LET from(bl) ==
        IF bl <= 53 THEN Fin(s, BigShl(p, 53 - bl), e - (53 - bl))
        ELSE LET upto(q) ==
                   IF BitLen(q) = 54 THEN Fin(s, One.m, e + (bl - 53) + 1)
                   ELSE Fin(s, q, e + (bl - 53))
             IN  upto(ShrRound(p, bl - 53, lost))
  IN  IF p = <<>> \/ s = 0 THEN Zero ELSE from(BitLen(p))

\* x * y
FMul(x, y) ==
  IF is_nan(x) \/ is_nan(y) THEN NaN
  ELSE IF ~is_finite(x) \/ ~is_finite(y)
  THEN IF x.s * y.s = 0 THEN NaN ELSE IF x.s * y.s > 0 THEN Inf ELSE NegInf
  ELSE Norm(x.s * y.s, BigMul(x.m, y.m), x.e + y.e, FALSE)

\* x / y: for finite operands the quotient of x.m * 2^54 by y.m (of 54 or 55
\* bits), found as that of (2 * x.m) * 16384^4 by 8 * y.m
FDiv(x, y) ==
  IF is_nan(x) \/ is_nan(y) THEN NaN
  ELSE IF ~is_finite(x)
  THEN IF ~is_finite(y) THEN NaN
       ELSE IF x.s * y.s >= 0 /\ (y.s # 0 \/ x.s > 0) THEN Inf ELSE NegInf
  ELSE IF ~is_finite(y) THEN Zero
  ELSE IF y.s = 0
  THEN IF x.s = 0 THEN NaN ELSE IF x.s > 0 THEN Inf ELSE NegInf
  ELSE IF x.s = 0 THEN Zero
  ELSE IF y.m = One.m THEN Fin(x.s * y.s, x.m, x.e - y.e - 52)
  ELSE LET quotient(qr) == Norm(x.s * y.s, qr.q, x.e - y.e - 54, qr.r # <<>>)
       IN  quotient(BigDivMod(BigMulInt(x.m, 2), BigMulInt(y.m, 8), 4, <<>>))

\* x < y (false when either is NaN)
FLess(x, y) ==
  /\ ~is_nan(x) /\ ~is_nan(y)
  /\ x # y
  /\ IF ~is_finite(x) THEN x.s < 0
     ELSE IF ~is_finite(y) THEN y.s > 0
     ELSE IF x.s # y.s THEN x.s < y.s
     ELSE IF x.s = 0 THEN FALSE
     ELSE LET below == IF x.e # y.e THEN x.e < y.e ELSE BigLess(x.m, y.m)
          IN  IF x.s > 0 THEN below ELSE ~below

\* x - y
FSub(x, y) ==
  IF is_nan(x) \/ is_nan(y) THEN NaN
  ELSE IF ~is_finite(x)
  THEN IF ~is_finite(y) /\ x.s = y.s THEN NaN ELSE x
  ELSE IF ~is_finite(y) THEN IF y.s > 0 THEN NegInf ELSE Inf
  ELSE IF y.s = 0 THEN x
  ELSE IF x.s = 0 THEN [y EXCEPT !.s = -y.s]
  ELSE LET e == Min(x.e, y.e)
           diff(p, q) ==
             IF x.s # y.s THEN Norm(x.s, BigAdd(p, q), e, FALSE)
             ELSE IF BigLess(p, q) THEN Norm(-x.s, BigSub(q, p), e, FALSE)
             ELSE Norm(x.s, BigSub(p, q), e, FALSE)
       IN  diff(BigShl(x.m, x.e - e), BigShl(y.m, y.e - e))

\* x.powf(3.0) for finite x, taken to be the f64 nearest to the exact cube
FPow3(x) ==
  IF x.s = 0 THEN Zero
  ELSE Norm(x.s, BigMul(BigMul(x.m, x.m), x.m), 3 * x.e, FALSE)

\* the f64 of an integer below 2^31 in absolute value
FInt(n) == Norm(Sgn(n), BigOf(Abs(n)), 0, FALSE)

\* variant: the first operand
FMin_first(x, y) == x

\* f64::min: the other operand when one is NaN
FMin(x, y) ==
  IF is_nan(x) THEN y
  ELSE IF is_nan(y) THEN x
  ELSE IF FLess(y, x) THEN y ELSE x

\* the f64 nearest to n / d: what a decimal literal or a decimal text with
\* that value denotes (d = 0: an infinity, or NaN for 0 / 0)
F(n, d) ==
  IF d = 0 THEN IF n > 0 THEN Inf ELSE IF n < 0 THEN NegInf ELSE NaN
  ELSE IF d = 1 THEN FInt(n)
  ELSE FDiv(FInt(n), FInt(d))

\* str::parse::<f64> on the price texts the feeds carry; <<>> is Err
ParseF64(text) ==
  CASE text = "2"     -> <<Two>>
    [] text = "3"     -> <<Three>>
    [] text = "0.5"   -> <<Half>>
    [] text = "0"     -> <<Zero>>
    [] text = "-1"    -> <<MinusOne>>
    [] text = "inf"   -> <<Inf>>
    [] text = "1e999" -> <<Inf>>
    [] text = "NaN"   -> <<NaN>>
    [] OTHER          -> <<>>

(* ------------------------------ PairPrice ----------------------------- *)
\* PairPrice as the connectors build it; a field the constructor leaves out
\* reads as spot with unknown (zero) volume
PairPrice(base, quote, price) ==
  [base |-> base, quote |-> quote, price |-> price,
   is_spot |-> TRUE, volume |-> Zero]

\* HashMap::insert / Vec of the values
EmptyMap == <<>>

\* an insert that keeps the entry a key already has
Put_keep_first(m, k, v) == IF k \in DOMAIN m THEN m ELSE (k :> v) @@ m

Put(m, k, v) == (k :> v) @@ m

\* every order HashMap::values() may produce
ValueVecs(m) ==
  LET K == DOMAIN m
      n == Cardinality(K)
  IN  {[i \in 1..n |-> m[o[i]]] :
         o \in {f \in [1..n -> K] : \A i, j \in 1..n : i # j => f[i] # f[j]}}

(* --------------------------- symbol splitting ------------------------- *)
S_BUSD == <<"B", "U", "S", "D">>
S_USDT == <<"U", "S", "D", "T">>
S_USDC == <<"U", "S", "D", "C">>
S_BTC == <<"B", "T", "C">>
S_ETH == <<"E", "T", "H">>
S_BNB == <<"B", "N", "B">>

BinanceSuffixes == <<S_BUSD, S_USDT, S_USDC, S_BTC, S_ETH, S_BNB>>

BybitSuffixes == <<S_USDT, S_USDC, S_BTC, S_ETH>>

\* first suffix of the list that sym ends with and is longer than, 0 if none
FirstSuffix(sym, sufs) ==
  LET hit == {i \in 1..Len(sufs) :
                ends_with(sym, sufs[i]) /\ Len(sym) > Len(sufs[i])}
  IN  IF hit = {} THEN 0 ELSE CHOOSE i \in hit : \A j \in hit : i <= j

split_symbol_binance(sym) ==
  LET i == FirstSuffix(sym, BinanceSuffixes)
  IN  IF i # 0
      THEN <<SubSeq(sym, 1, Len(sym) - Len(BinanceSuffixes[i])), BinanceSuffixes[i]>>
      ELSE IF Len(sym) > 4
      THEN <<SubSeq(sym, 1, Len(sym) - 3), SubSeq(sym, Len(sym) - 2, Len(sym))>>
      ELSE <<<<>>, <<>>>>

split_symbol(symbol) ==
  LET i == FirstSuffix(symbol, BybitSuffixes)
  IN  IF i # 0
      THEN <<trim_end_matches(symbol, BybitSuffixes[i]), BybitSuffixes[i]>>
      ELSE <<<<>>, <<>>>>

\* kucoin: Some((base, quote)) as <<base, quote>>, None as <<>>
parse_symbol(sym) ==
  LET parts == split(sym, "-")
  IN  IF Len(parts) = 2 THEN <<parts[1], parts[2]>> ELSE <<>>

(* ------------------------- ticker entries ------------------------------ *)
\* A ticker entry: sym is <<>> (field missing) or <<symbol>>; price is a JSON
\* string (enc "str"), a JSON number (enc "num", always finite) or missing.
PStr(t) == [enc |-> "str", text |-> t, val |-> NaN]
PNum(v) == [enc |-> "num", text |-> "", val |-> v]
PNone == [enc |-> "none", text |-> "", val |-> NaN]

Item(sym, p) == [sym |-> sym, price |-> p]

\* .as_str().and_then(parse).or_else(as_f64), binance.rs:53-55, bybit.rs:56-57
price_opt(p) ==
  IF p.enc = "str" THEN ParseF64(p.text)
  ELSE IF p.enc = "num" THEN <<p.val>>
  ELSE <<>>

\* the acceptance test of binance.rs:59 and bybit.rs:60
accept_price(price) == GtZero(price)

binance_item(local, it) ==
  IF it.sym = <<>> THEN local
  ELSE LET symbol == it.sym[1]
           po == price_opt(it.price)
       IN  IF po = <<>> THEN local
           ELSE LET bq == split_symbol_binance(symbol)
                IN  IF bq[1] # <<>> /\ bq[2] # <<>> /\ accept_price(po[1])
                    THEN Put(local, symbol, PairPrice(bq[1], bq[2], po[1]))
                    ELSE local

bybit_item(local, it) ==
  LET sym == to_uppercase(IF it.sym = <<>> THEN <<>> ELSE it.sym[1])
      po == price_opt(it.price)
  IN  IF po = <<>> THEN local
      ELSE LET bq == split_symbol(sym)
           IN  IF bq[1] # <<>> /\ bq[2] # <<>> /\ accept_price(po[1])
               THEN Put(local, sym, PairPrice(bq[1], bq[2], po[1]))
               ELSE local

kucoin_item(local, it) ==
  IF it.sym = <<>> \/ it.price.enc # "str" THEN local
  ELSE LET sym == it.sym[1]
           po == ParseF64(it.price.text)
       IN  IF po = <<>> THEN local
           ELSE IF GtZero(po[1])
           THEN LET bq == parse_symbol(sym)
                IN  IF bq # <<>>
                    THEN Put(local, to_uppercase(sym), PairPrice(bq[1], bq[2], po[1]))
                    ELSE local
           ELSE local

gateio_item(local, it) ==
  IF it.sym = <<>> \/ it.price.enc # "num" THEN local
  ELSE LET sym == it.sym[1]
           parts == split(sym, "_")
           price == it.price.val
       IN  IF Len(parts) = 2 /\ GtZero(price)
           THEN Put(local, to_uppercase(sym), PairPrice(parts[1], parts[2], price))
           ELSE local

on_item(e, local, it) ==
  CASE e = "binance" -> binance_item(local, it)
    [] e = "bybit"   -> bybit_item(local, it)
    [] e = "kucoin"  -> kucoin_item(local, it)
    [] e = "gateio"  -> gateio_item(local, it)

RECURSIVE on_items(_, _, _)
on_items(e, local, items) ==
  IF items = <<>> THEN local
  ELSE on_items(e, on_item(e, local, Head(items)), Tail(items))

(* ------------------------------- scanner ------------------------------ *)
\* the per-leg fee in percent and the neighbor limit the scanner is built with
fee_per_leg_pct == Tenth
neighbor_limit == 100

\* variant: map.entry(a).or_default().entry(b).or_insert(v), which keeps the
\* value an edge already has
Insert2_or_insert(m, a, b, v) ==
  IF a \in DOMAIN m /\ b \in DOMAIN m[a] THEN m
  ELSE Put(m, a, Put(IF a \in DOMAIN m THEN m[a] ELSE EmptyMap, b, v))

\* map.entry(a).or_default().insert(b, v)
Insert2(m, a, b, v) ==
  Put(m, a, Put(IF a \in DOMAIN m THEN m[a] ELSE EmptyMap, b, v))

\* m.get(a).and_then(|x| x.get(b)): <<v>> or <<>>
Get2(m, a, b) ==
  IF a \in DOMAIN m /\ b \in DOMAIN m[a] THEN <<m[a][b]>> ELSE <<>>

\* variant: the inverse edge carries the price itself
add_pair_same_rate(g, p) ==
  IF ~p.is_spot \/ LeZero(p.price) THEN g
  ELSE LET a == to_uppercase(p.base)
           b == to_uppercase(p.quote)
           adj1 == Insert2(g.adj, a, b, p.price)
           adj2 == Insert2(adj1, b, a, p.price)
           vol1 == Insert2(g.vol_map, a, b, p.volume)
           vol2 == Insert2(vol1, b, a, p.volume)
       IN  [adj |-> adj2, vol_map |-> vol2]

\* one iteration of the loop over the pairs
add_pair(g, p) ==
  IF ~p.is_spot \/ LeZero(p.price) THEN g
  ELSE LET a == to_uppercase(p.base)
           b == to_uppercase(p.quote)
           adj1 == Insert2(g.adj, a, b, p.price)
           adj2 == IF GtZero(p.price)
                   THEN Insert2(adj1, b, a, FDiv(One, p.price))
                   ELSE adj1
           vol1 == Insert2(g.vol_map, a, b, p.volume)
           vol2 == Insert2(vol1, b, a, p.volume)
       IN  [adj |-> adj2, vol_map |-> vol2]

\* adj and vol_map after the loop over the pairs
RECURSIVE build_graph(_, _)
build_graph(g, pairs) ==
  IF pairs = <<>> THEN g
  ELSE build_graph(add_pair(g, Head(pairs)), Tail(pairs))

\* vol_map.get(a).and_then(|m| m.get(b)).copied().unwrap_or(0.0)
volume_of(vol_map, a, b) ==
  LET v == Get2(vol_map, a, b) IN IF v = <<>> THEN Zero ELSE v[1]

\* variant: ascending volume
volume_before_ascending(x, y) == FLess(x.v, y.v)

\* b.1.partial_cmp(&a.1) is Less: a has the greater volume
volume_before(x, y) == FLess(y.v, x.v)

\* variant: the profit alone decides
result_before_profit_only(x, y) == FLess(y.profit_after, x.profit_after)

\* the comparator of the final sort is Less: x has the greater profit_after,
\* or an equal one and the greater liquidity score
result_before(x, y) ==
  \/ FLess(y.profit_after, x.profit_after)
  \/ /\ ~FLess(x.profit_after, y.profit_after)
     /\ ~FLess(y.profit_after, x.profit_after)
     /\ FLess(y.score_liquidity, x.score_liquidity)

\* the comparator of the sort named by `by`
before(by, x, y) ==
  IF by = "volume" THEN volume_before(x, y) ELSE result_before(x, y)

\* Vec::sort_by (stable) with the comparator named by `by`
RECURSIVE insert_sorted(_, _, _)
insert_sorted(sorted, x, by) ==
  IF sorted = <<>> THEN <<x>>
  ELSE IF before(by, x, Head(sorted)) THEN <<x>> \o sorted
  ELSE <<Head(sorted)>> \o insert_sorted(Tail(sorted), x, by)

RECURSIVE sort_by(_, _, _)
sort_by(done, rest, by) ==
  IF rest = <<>> THEN done
  ELSE sort_by(insert_sorted(done, Head(rest), by), Tail(rest), by)

\* the first n elements
take(vec, n) == SubSeq(vec, 1, Min(n, Len(vec)))

\* the neighbor list of one base: its targets, in the order the map yields
\* them, sorted by volume descending, cut to the limit
neighbor_list(g, base, targets, limit) ==
  LET vec == [i \in 1..Len(targets) |->
                [q |-> targets[i], v |-> volume_of(g.vol_map, base, targets[i])]]
      names(kept) == [i \in 1..Len(kept) |-> kept[i].q]
  IN  names(take(sort_by(<<>>, vec, "volume"), limit))

\* every order in which a map may yield the keys in S
RECURSIVE Perms(_)
Perms(S) ==
  IF S = {} THEN {<<>>}
  ELSE UNION {{<<x>> \o q : q \in Perms(S \ {x})} : x \in S}

\* the neighbor lists one base may get
neighbor_lists(g, base, limit) ==
  {neighbor_list(g, base, t, limit) : t \in Perms(DOMAIN g.adj[base])}

\* the neighbors maps the build may produce
RECURSIVE neighbor_maps(_, _, _)
neighbor_maps(g, bases, limit) ==
  IF bases = {} THEN {EmptyMap}
  ELSE LET base == CHOOSE x \in bases : TRUE
       IN  {Put(m, base, l) : m \in neighbor_maps(g, bases \ {base}, limit),
                              l \in neighbor_lists(g, base, limit)}

\* preds: the nodes with an outgoing edge to v
preds_of(adj, v) == {u \in DOMAIN adj : v \in DOMAIN adj[u]}

\* variant: the fee of one leg only
fee_factor_one_leg(fee) == FSub(One, FDiv(fee, Hundred))

\* variant: the fee is added
fee_factor_added(fee) == FPow3(FSub(One, FDiv(fee, F(-100, 1))))

\* (1.0 - fee_per_leg_pct / 100.0).powf(3.0)
fee_factor(fee) == FPow3(FSub(One, FDiv(fee, Hundred)))

\* 3.0 * fee_per_leg_pct
total_fee_pct(fee) == FMul(Three, fee)

\* gross, profit_before, net and profit_after of a cycle with the three rates
cycle_profit(r_ab, r_bc, r_ca, factor) ==
  LET figures(gross, net) ==
        [gross |-> gross,
         profit_before |-> FMul(FSub(gross, One), Hundred),
         profit_after |-> FMul(FSub(net, One), Hundred)]
      with_net(gross) == figures(gross, FMul(gross, factor))
  IN  with_net(FMul(FMul(r_ab, r_bc), r_ca))

\* what the scan computes from the rates and the fee alone: the total fee and,
\* for every cycle (a, b, c) with the three edges, its figures (the same on
\* every visit of the triple, so computed once per graph)
cycle_profits(adj, fee) ==
  LET factor == fee_factor(fee)
      nodes == DOMAIN adj
  IN  [total_fee_pct |-> total_fee_pct(fee),
       of |-> {[cycle |-> t,
                figures |-> cycle_profit(adj[t[1]][t[2]], adj[t[2]][t[3]],
                                         adj[t[3]][t[1]], factor)] :
                 t \in {u \in nodes \X nodes \X nodes :
                          /\ u[2] \in DOMAIN adj[u[1]]
                          /\ u[3] \in DOMAIN adj[u[2]]
                          /\ u[1] \in DOMAIN adj[u[3]]}}]

\* tuple order of (String, String, String)
TripleLess(t, u) ==
  IF t[1] # u[1] THEN StrLess(t[1], u[1])
  ELSE IF t[2] # u[2] THEN StrLess(t[2], u[2])
  ELSE StrLess(t[3], u[3])

\* variant: the triple itself is the key
canonical_key_as_found(a, b, c) == <<a, b, c>>

\* rots.sort(); rots[0]
canonical_key(a, b, c) ==
  LET rots == {<<a, b, c>>, <<b, c, a>>, <<c, a, b>>}
  IN  CHOOSE r \in rots : \A o \in rots : ~TripleLess(o, r)

\* format!("{} → {} → {} → {}", a, b, c, a)
triangle_fmt(a, b, c) ==
  LET arrow == <<" ", "→", " ">>
  IN  a \o arrow \o b \o arrow \o c \o arrow \o a

\* format!("{}/{}", a, b)
pair_fmt(a, b) == a \o <<"/">> \o b

\* the body of the innermost loop: candidate (a, b, c) with the state
\* st = [seen, out]; calc is cycle_profits of the graph
visit(g, min_profit_after, calc, a, b, c, st) ==
  LET r_ab == Get2(g.adj, a, b)
      r_bc == Get2(g.adj, b, c)
      r_ca == Get2(g.adj, c, a)
  IN  IF c = a \/ c = b THEN st
      ELSE IF c \notin preds_of(g.adj, a) THEN st
      ELSE IF r_ab = <<>> \/ r_bc = <<>> \/ r_ca = <<>> THEN st
      ELSE LET p == (CHOOSE r \in calc.of : r.cycle = <<a, b, c>>).figures
               liquidity_score ==
                 FMin(FMin(volume_of(g.vol_map, a, b), volume_of(g.vol_map, b, c)),
                      volume_of(g.vol_map, c, a))
               key == canonical_key(a, b, c)
           IN  IF ~is_finite(p.gross) THEN st
               ELSE IF LeZero(p.profit_before) THEN st
               ELSE IF FLess(p.profit_after, min_profit_after) THEN st
               ELSE IF key \in st.seen THEN st
               ELSE [seen |-> st.seen \cup {key},
                     out |-> Append(st.out,
                               [triangle |-> triangle_fmt(a, b, c),
                                pairs |-> <<pair_fmt(a, b), pair_fmt(b, c), pair_fmt(c, a)>>,
                                profit_before |-> p.profit_before,
                                fees |-> calc.total_fee_pct,
                                profit_after |-> p.profit_after,
                                score_liquidity |-> liquidity_score])]

\* for c in nb.iter(); a candidate that is skipped leaves the state as it is
\* (the test on DOMAIN st is never true: it has the state of each step
\* evaluated before the next step starts)
RECURSIVE loop_c(_, _, _, _, _, _, _)
loop_c(g, min_profit_after, calc, a, b, cs, st) ==
  IF cs = <<>> \/ DOMAIN st = {} THEN st
  ELSE loop_c(g, min_profit_after, calc, a, b, Tail(cs),
              visit(g, min_profit_after, calc, a, b, Head(cs), st))

\* for b in neigh_a.iter()
RECURSIVE loop_b(_, _, _, _, _, _, _)
loop_b(g, neighbors, min_profit_after, calc, a, bs, st) ==
  IF bs = <<>> \/ DOMAIN st = {} THEN st
  ELSE LET b == Head(bs)
           nb == IF b \in DOMAIN neighbors THEN neighbors[b] ELSE <<>>
       IN  loop_b(g, neighbors, min_profit_after, calc, a, Tail(bs),
                  loop_c(g, min_profit_after, calc, a, b, nb, st))

\* for a in neighbors.keys(), in the order `as`
RECURSIVE loop_a(_, _, _, _, _, _)
loop_a(g, neighbors, min_profit_after, calc, as, st) ==
  IF as = <<>> \/ DOMAIN st = {} THEN st
  ELSE loop_a(g, neighbors, min_profit_after, calc, Tail(as),
              loop_b(g, neighbors, min_profit_after, calc, Head(as),
                     neighbors[Head(as)], st))

\* the lists a scan may return, over the orders in which the hash maps may
\* yield their keys
scan_results(pairs, min_profit_after, fee, limit) ==
  LET scan(g, calc) ==
        IF g.adj = EmptyMap THEN {<<>>}
        ELSE {sort_by(<<>>,
                      loop_a(g, neighbors, min_profit_after, calc, as,
                             [seen |-> {}, out |-> <<>>]).out,
                      "result") :
                neighbors \in neighbor_maps(g, DOMAIN g.adj, limit),
                as \in Perms(DOMAIN g.adj)}
      on_graph(g) == scan(g, cycle_profits(g.adj, fee))
  IN  on_graph(build_graph([adj |-> EmptyMap, vol_map |-> EmptyMap], pairs))

find_triangular_opportunities(pairs, min_profit_after) ==
  scan_results(pairs, min_profit_after, fee_per_leg_pct, neighbor_limit)

(* ------------------------------- state -------------------------------- *)
VARIABLES
  started,   \* start_all_workers has returned
  store,     \* GLOBAL_PRICES: exchange key -> Vec<PairPrice>
  rlock,     \* the readers holding the store's read lock
  wlock,     \* the task holding the store's write lock across an await, or "none"
  pc,        \* per connector: where its task is
  local,     \* per connector: the session's local map, raw symbol -> PairPrice
  due,       \* per connector: last_flush.elapsed() >= 1 s
  backoff,   \* per connector: the backoff variable (bybit, gateio)
  fails,     \* per connector: the connect failures since the last successful
             \* connect (history, not a variable of the code)
  prior,     \* per connector: the connect failures that preceded the last
             \* successful connect (history)
  closed,    \* connectors whose peer has sent a Close frame in this session
  handling,  \* per connector: the kind of frame whose handling is in progress
  wire,      \* per connector: what it has handed to write.send (history):
             \* subs, the subscribe messages of the current connection; sub_ok,
             \* whether the send of the last one succeeded; failed, the
             \* connections in a row whose subscribe send failed; reply, what
             \* the handling of the frame read last has written
  rpc,       \* per reader: where its gather_prices_for_exchanges call is
  req,       \* per reader: the requested exchange names
  result,    \* per reader: the returned Result (ok, val)
  opps,      \* per reader: the opportunities its scan returned
  nev,       \* environment events delivered so far
  net,       \* the environment: exchanges whose websocket servers answer
             \* (up; a connect to another hangs) and the events it delivers
             \* in one behaviour (quota), the results it gives to a
             \* write on a socket (sends), and the handle start_all_workers
             \* is given (initial)
  sin,       \* the input of the function run on its own: for the scanner the
             \* pairs, threshold, fee and limit, for a splitter the symbol's parts
  sout,      \* what the runs of that function have returned, in order
  call       \* the scan_handler call run on its own: where it is (pc, i), the
             \* fetch tasks it has spawned, merged_pairs, errors, the response

vars == <<started, store, rlock, wlock, pc, local, due, backoff, fails, prior, closed, handling,
          wire,
          rpc, req, result, opps,
          nev, net, sin, sout, call>>

connVars == <<pc, local, due, backoff, fails, prior, closed, handling, wire>>

readVars == <<rpc, req, result, opps>>

scanVars == <<sin, sout, call>>

Exchanges == {"binance", "bybit", "kucoin", "gateio"}

Readers == 1..NumReaders

\* the key each connector passes to guard.insert
K_binance == <<"b", "i", "n", "a", "n", "c", "e">>
K_bybit == <<"b", "y", "b", "i", "t">>
K_kucoin == <<"k", "u", "c", "o", "i", "n">>
K_gateio == <<"g", "a", "t", "e", "i", "o">>

\* variant: the gateio connector flushes under the binance key
flush_key_shared(e) ==
  CASE e = "binance" -> K_binance
    [] e = "bybit"   -> K_bybit
    [] e = "kucoin"  -> K_kucoin
    [] e = "gateio"  -> K_binance

flush_key(e) ==
  CASE e = "binance" -> K_binance
    [] e = "bybit"   -> K_bybit
    [] e = "kucoin"  -> K_kucoin
    [] e = "gateio"  -> K_gateio

\* initial and maximal backoff, seconds
InitialBackoff == 2
MaxBackoff == 60

HasBackoff(e) == e \in {"bybit", "gateio"}

\* the fixed delay after a connect failure of binance and kucoin, seconds
RetryDelay == 3

\* the delay slept after a connect failure, b the backoff variable
connect_wait(e, b) == IF HasBackoff(e) THEN Min(b, MaxBackoff) ELSE RetryDelay

\* the backoff variable after that sleep
backoff_after_failure(e, b) == IF HasBackoff(e) THEN Min(b * 2, MaxBackoff) ELSE b

\* variant: the backoff variable is left as it is when a session ends
backoff_after_session_kept(e, b) == b

\* the backoff variable after the streaming loop is left
backoff_after_session(e, b) == IF HasBackoff(e) THEN InitialBackoff ELSE b

(* ------------------------------- inputs ------------------------------- *)
BTCUSDT == <<"B", "T", "C", "U", "S", "D", "T">>
ETHBTC == <<"E", "T", "H", "B", "T", "C">>
ethbtc == <<"e", "t", "h", "b", "t", "c">>
BTC_USDT == <<"B", "T", "C", "_", "U", "S", "D", "T">>
eth_btc == <<"e", "t", "h", "_", "b", "t", "c">>
BTC_DASH_USDT == <<"B", "T", "C", "-", "U", "S", "D", "T">>
eth_dash_btc == <<"e", "t", "h", "-", "b", "t", "c">>

\* raw symbols a feed may carry: two that split, one that does not
Symbols(e) ==
  CASE e = "binance" -> <<BTCUSDT, ETHBTC, S_USDT>>
    [] e = "bybit"   -> <<BTCUSDT, ethbtc, S_USDT>>
    [] e = "kucoin"  -> <<BTC_DASH_USDT, eth_dash_btc, BTCUSDT>>
    [] e = "gateio"  -> <<BTC_USDT, eth_btc, BTCUSDT>>

\* price encodings: numeric strings, a non-numeric string, JSON numbers, none
Prices ==
  {PStr("2"), PStr("3"), PStr("0"), PStr("-1"), PStr("inf"), PStr("NaN"),
   PStr("abc"), PNum(Two), PNum(Three), PNum(Zero), PNum(MinusOne),
   PNone}

\* ticker entries: every price encoding on the first symbol, one price on
\* the others and on an entry without a symbol
Items(e) ==
  {Item(<<Symbols(e)[1]>>, p) : p \in Prices}
    \cup {Item(<<Symbols(e)[i]>>, p) : i \in {2, 3}, p \in {PStr("2"), PNum(Two)}}
    \cup {Item(<<>>, PStr("2"))}

\* the ticker lists a message may carry
Batches(e) ==
  {<<i>> : i \in Items(e)}
    \cup {<<Item(<<Symbols(e)[1]>>, p), Item(<<Symbols(e)[1]>>, q)>> :
            p \in {PStr("2"), PNum(Two)}, q \in {PStr("3"), PNum(Three), PStr("abc")}}
    \cup {<<Item(<<Symbols(e)[3]>>, p), Item(<<Symbols(e)[2]>>, p)>> :
            p \in {PStr("2"), PNum(Two)}}

Body(j, items) == [j |-> j, items |-> items]

\* the text payloads: not JSON, JSON of another shape, and the exchange's
\* ticker envelopes
Bodies(e) ==
  {Body("invalid", <<>>), Body("other", <<>>)}
    \cup CASE e = "binance" ->
                {Body(j, b) : j \in {"array", "data_array"}, b \in Batches(e)}
                  \cup {Body(j, <<i>>) : j \in {"data_object", "single"}, i \in Items(e)}
           [] e = "bybit" ->
                {Body("op_ping", <<>>)} \cup {Body("tickers", b) : b \in Batches(e)}
           [] e = "kucoin" -> {Body("data_object", <<i>>) : i \in Items(e)}
           [] e = "gateio" -> {Body("tickers", b) : b \in Batches(e)}

TickerShapes == {"array", "data_array", "data_object", "single", "tickers"}

Ev(k, body) == [k |-> k, body |-> body]

\* what read.next() may yield: a frame, Some(Err) ("err") or None ("end")
Events(e) ==
  {Ev("text", b) : b \in Bodies(e)}
    \cup {Ev(k, Body("none", <<>>)) : k \in {"binary", "ping", "pong", "close", "err", "end"}}

\* symbols with an empty side of the separator
DASH_USDT == <<"-", "U", "S", "D", "T">>
BTC_ == <<"B", "T", "C", "_">>

\* tickers of such symbols, in the envelope of the exchange that splits at
\* that separator
OddEvents(e) ==
  CASE e = "kucoin" ->
         {Ev("text", Body("data_object", <<Item(<<DASH_USDT>>, PStr("2"))>>))}
    [] e = "gateio" ->
         {Ev("text", Body("tickers", <<Item(<<BTC_>>, PNum(Two))>>))}
    [] OTHER -> {}

\* a text frame that is not a ticker message of the exchange
IsBadText(ev) == ev.k = "text" /\ ev.body.j \in {"invalid", "other"}

BadTexts == {Ev("text", Body(j, <<>>)) : j \in {"invalid", "other"}}

\* names a scan request may carry
N_BYBIT == <<"B", "Y", "B", "I", "T">>
N_kraken == <<"k", "r", "a", "k", "e", "n">>

ReqNames == {K_binance, N_BYBIT, K_kucoin, K_gateio, N_kraken}

Requests ==
  {<<>>, <<N_kraken>>, <<K_binance, N_BYBIT>>, <<N_BYBIT, K_kucoin>>,
   <<K_kucoin, N_kraken>>, <<K_gateio, K_kucoin>>}

\* currencies and pair lists given to the scanner
cA == <<"A">>
cB == <<"B">>
cC == <<"C">>
cD == <<"D">>

\* a PairPrice with a reported volume
PairVol(base, quote, price, volume) ==
  [PairPrice(base, quote, price) EXCEPT !.volume = volume]

\* A/B = 2, B/C = 3, C/A = 0.2 (gross 1.2), with the volumes given
Triangle(v1, v2, v3) ==
  <<PairVol(cA, cB, Two, v1), PairVol(cB, cC, Three, v2),
    PairVol(cC, cA, Fifth, v3)>>

\* A/B = 2, B/C = 0.5, C/A = 1: gross exactly 1
GrossOne ==
  <<PairVol(cA, cB, Two, Zero), PairVol(cB, cC, Half, Zero),
    PairVol(cC, cA, One, Zero)>>

\* the gross-1 cycle and, sharing A/B, the cycle A/B = 2, B/D = 3, D/A = 0.2
GrossOneAndProfit ==
  <<PairVol(cA, cB, Two, Nine), PairVol(cB, cC, Half, Seven),
    PairVol(cC, cA, One, Five), PairVol(cB, cD, Three, Three),
    PairVol(cD, cA, Fifth, One)>>

\* two cycles of the same gross 1.2 through A/B, of liquidity 5 and 1
EqualProfits ==
  Triangle(Nine, Seven, Five)
    \o <<PairVol(cB, cD, Three, Three), PairVol(cD, cA, Fifth, One)>>

\* A/A = 0.5 (the rate stored last for A -> A is its inverse, 2) and A/B = 2
SelfPairAndPair ==
  <<PairVol(cA, cA, Half, Nine), PairVol(cA, cB, Two, One)>>

\* the triangle, then A/B again from another feed at another price
RepeatedPair ==
  Triangle(Five, Three, One) \o <<PairVol(<<"a">>, <<"b">>, Three, Seven)>>

\* the triangle, then the pair B/A: the reverse of its first pair
ReversedPair ==
  Triangle(Five, Three, One) \o <<PairVol(cB, cA, Quarter, Nine)>>

\* a cycle whose exact gross is within rounding of 1: in f64 the product is
\* 1.0000000000000002 from one starting node of each orientation
MarginalCycle ==
  <<PairVol(cA, cB, Price23_76, Zero), PairVol(cB, cC, Fifth, Zero),
    PairVol(cC, cA, PriceNearInverse, Zero)>>

PairLists ==
  {<<>>,
   RepeatedPair,
   ReversedPair,
   MarginalCycle,
   <<PairVol(cA, cB, Two, Zero)>>,
   Triangle(Zero, Zero, Zero),
   Triangle(Five, Three, One),
   Triangle(Five, Five, One),
   GrossOne,
   GrossOneAndProfit,
   EqualProfits,
   \* the same cycle listed from the other side, lower case
   <<PairVol(<<"b">>, <<"a">>, Half, Four), PairVol(<<"c">>, <<"b">>, Third, Two),
     PairVol(<<"a">>, <<"c">>, Five, One)>>,
   \* two cycles that share the edge A/B
   Triangle(Nine, Seven, Five)
     \o <<PairVol(cB, cD, Three, Three), PairVol(cD, cA, Quarter, One)>>,
   \* a pair of a currency with itself
   <<PairVol(cA, cA, Two, Nine)>> \o Triangle(Five, Three, One),
   SelfPairAndPair,
   \* prices that are zero, NaN, infinite, and a pair that is not spot
   <<PairVol(cA, cB, Zero, One), PairVol(cB, cC, NaN, Two),
     PairVol(cC, cA, Inf, Three)>>,
   <<[PairVol(cA, cB, Two, Three) EXCEPT !.is_spot = FALSE],
     PairVol(cB, cC, Three, Two), PairVol(cC, cA, Fifth, One)>>}

\* thresholds a scan request may carry (percent)
\* 19.640359880000013, the profit after fees the scan computes for the cycle
\* A/B = 2, B/C = 3, C/A = 0.2 at the built-in fee
ProfitAfterOfTriangle == Fin(1, <<1346, 25, 16106, 1256>>, -48)

MinProfits == {MinusOne, Zero, ProfitAfterOfTriangle, TwentyFive}

\* the threshold of the scans the readers request
ReaderMinProfit == Zero

\* the neighbor limits scans are run with: the one the code is built with
\* and two that cut the lists of small graphs
NeighborLimits == {1, 2, neighbor_limit}

ScanInputs ==
  {[pairs |-> p, min_profit_after |-> m, fee_per_leg_pct |-> fee_per_leg_pct,
    neighbor_limit |-> l] :
     p \in PairLists, m \in MinProfits, l \in NeighborLimits}

\* the per-leg fees (percent) the scan is compared under: none, the built-in
\* one, and fees up to and beyond the whole amount
Fees == {Zero, fee_per_leg_pct, One, Fifty, HundredFifty}

\* scans under each fee, with every neighbor kept and a minimum low enough
\* to report a cycle whatever the fee
FeeInputs ==
  {[pairs |-> p, min_profit_after |-> m, fee_per_leg_pct |-> f,
    neighbor_limit |-> neighbor_limit] :
     p \in {Triangle(Zero, Zero, Zero), Triangle(Five, Three, One),
             EqualProfits},
     m \in {MinusThousand, Zero}, f \in Fees}

\* no scan input
NoScan ==
  [pairs |-> <<>>, min_profit_after |-> Zero, fee_per_leg_pct |-> fee_per_leg_pct,
   neighbor_limit |-> neighbor_limit]

(* ----------------------------- connectors ----------------------------- *)
\* one more environment event is delivered
Event == nev < net.quota /\ nev' = nev + 1

\* variant: a text frame that is no ticker message empties the local map
on_text_reset(e, loc, body) ==
  IF body.j \in TickerShapes THEN on_items(e, loc, body.items) ELSE EmptyMap

\* the local map after a text frame: ticker envelopes insert their entries,
\* anything else (not JSON, another shape, an op ping) inserts nothing
on_text(e, loc, body) ==
  IF body.j \in TickerShapes THEN on_items(e, loc, body.items) ELSE loc

\* what follows the handling of one read result in the streaming loop:
\* the flush check, the next read without it, or leaving the loop
recv_ctl(e, ev) ==
  CASE e = "binance" ->
         IF ev.k = "text" THEN "flushcheck"
         ELSE IF ev.k \in {"err", "end"} THEN "break"
         ELSE "loop"
    [] e = "bybit" ->
         IF ev.k = "text"
         THEN IF ev.body.j = "op_ping" THEN "loop" ELSE "flushcheck"
         ELSE IF ev.k \in {"close", "err", "end"} THEN "break"
         ELSE "flushcheck"
    [] e = "kucoin" ->
         IF ev.k \in {"err", "end"} THEN "break" ELSE "flushcheck"
    [] e = "gateio" ->
         IF ev.k \in {"close", "err", "end"} THEN "break" ELSE "flushcheck"

\* variant: bybit answers the transport ping only
reply_transport_only(e, ev) ==
  IF e # "binance" /\ ev.k = "ping" THEN "pong" ELSE "none"

\* what the handling of one read result hands to write.send: the text
\* {"op":"pong"} for bybit's {"op":"ping"}, a Pong frame for a Ping frame
\* (binance keeps no write half in use, binance.rs:26)
reply(e, ev) ==
  IF e = "bybit" /\ ev.k = "text" /\ ev.body.j = "op_ping" THEN "op_pong"
  ELSE IF e # "binance" /\ ev.k = "ping" THEN "pong"
  ELSE "none"

\* variant: no connector sends a subscribe message
after_connect_stream(e) == "stream"

\* where a task goes when connect_async has succeeded: binance reads at
\* once (its stream is named in the url), the others send their subscribe
\* message first
after_connect(e) == IF e = "binance" THEN "stream" ELSE "subscribe"

\* variant: the flush is made after every message
flush_always(elapsed) == TRUE

\* last_flush.elapsed() >= Duration::from_secs(1), `elapsed` saying whether
\* a second has passed since last_flush
flush_now(elapsed) == elapsed

\* variant: a failed subscribe send ends the connection
after_subscribe_abandon(sent) == IF sent THEN "stream" ELSE "sleep_end"

\* where a task goes after the subscribe send: the result is only logged
after_subscribe(sent) == "stream"

\* no message handed to the socket
NoWrites == [subs |-> 0, sub_ok |-> TRUE, failed |-> 0, reply |-> "none"]

\* variant: the flushed entries are appended to the vector already stored
flush_insert_extend(map, key, vec) ==
  Put(map, key, (IF key \in DOMAIN map THEN map[key] ELSE <<>>) \o vec)

\* guard.insert(key, vec): the whole vector under the key is replaced
flush_insert(map, key, vec) == Put(map, key, vec)

\* the handle main.rs:30 passes: a new lock around an empty map
MainInitial == [lock |-> "own", content |-> EmptyMap]

\* handles start_all_workers may be given: that of main, a lock of its own
\* around a map with an entry, and a clone of GLOBAL_PRICES
Initials ==
  {MainInitial,
   [lock |-> "own", content |-> Put(EmptyMap, K_bybit, <<PairPrice(cA, cB, Two)>>)],
   [lock |-> "global", content |-> EmptyMap]}

\* initial.read().await returns: the read lock of a tokio RwLock is granted
\* when no task holds its write lock; w is the holder of the write lock of
\* GLOBAL_PRICES
read_granted(initial, w) == initial.lock = "own" \/ w = "none"

\* no scan_handler call in progress
NoCall ==
  [pc |-> "none", i |-> 0, tasks |-> <<>>, merged_pairs |-> <<>>,
   errors |-> <<>>, response |-> <<>>]

FrameKind(ev) ==
  IF IsBadText(ev) THEN "bad"
  ELSE IF ev.k = "close" THEN "close"
  ELSE "frame"

\* ws_manager.rs:24: GLOBAL_PRICES.write().await returns to start_all_workers,
\* whose next await is initial.read().await at line 25
StartWrite ==
  /\ ~started
  /\ wlock = "none"
  /\ rlock = {}
  /\ wlock' = "start_all_workers"
  /\ UNCHANGED <<started, store, rlock, nev, connVars, readVars, net, scanVars>>

\* ws_manager.rs:25-70: initial.read().await returns (main.rs:30 builds
\* `initial` as an empty map under a lock nobody else holds), the copy, both
\* guards dropped, the four spawns
start_all_workers ==
  /\ ~started
  /\ wlock = "start_all_workers"
  /\ read_granted(net.initial, wlock)
  /\ started' = TRUE
  /\ store' = net.initial.content
  /\ wlock' = "none"
  /\ pc' = [e \in Exchanges |-> IF e = "kucoin" THEN "token" ELSE "connect"]
  /\ UNCHANGED <<wire, rlock, local, due, backoff, fails, prior, closed, handling, nev, readVars, net, scanVars>>

\* kucoin.rs:14-34: the bullet-public request, made once before the loop
KucoinToken ==
  /\ pc["kucoin"] = "token"
  /\ \E outcome \in {"ok", "request_err", "decode_err", "empty_token", "bad_url"} :
       IF outcome = "ok"
       THEN pc' = [pc EXCEPT !["kucoin"] = "connect"] /\ nev' = nev
       ELSE pc' = [pc EXCEPT !["kucoin"] = "returned"] /\ Event
  /\ UNCHANGED <<wire, wlock, fails, prior, started, store, rlock, local, due, backoff, closed, handling, readVars, net, scanVars>>

\* a session's local map and flush timer, as created after the connect
NewSession(e) ==
  /\ local' = [local EXCEPT ![e] = EmptyMap]
  /\ due' = [due EXCEPT ![e] = FALSE]
  /\ closed' = closed \ {e}

\* connect_async succeeds
ConnectOk(e) ==
  /\ pc[e] = "connect"
  /\ e \in net.up
  /\ Event
  /\ IF after_connect(e) = "stream"
     THEN /\ pc' = [pc EXCEPT ![e] = "stream"]
          /\ NewSession(e)
     ELSE /\ pc' = [pc EXCEPT ![e] = "subscribe"]
          /\ UNCHANGED <<local, due, closed>>
  /\ fails' = [fails EXCEPT ![e] = 0]
  /\ prior' = [prior EXCEPT ![e] = fails[e]]
  /\ wire' = [wire EXCEPT ![e] = [NoWrites EXCEPT !.failed = wire[e].failed]]
  /\ UNCHANGED <<wlock, started, store, rlock, backoff, handling, readVars, net, scanVars>>

\* connect_async fails: the task sleeps connect_wait(e, backoff[e]) seconds;
\* backoff is not assigned before the sleep ends
ConnectErr(e) ==
  /\ pc[e] = "connect"
  /\ e \in net.up
  /\ Event
  /\ pc' = [pc EXCEPT ![e] = "sleep_fail"]
  /\ fails' = [fails EXCEPT ![e] = @ + 1]
  /\ UNCHANGED <<wire, wlock, prior, started, store, rlock, local, due, backoff, closed, handling, readVars, net, scanVars>>

\* the sleep after a connect failure ends; bybit and gateio double backoff
WakeFail(e) ==
  /\ pc[e] = "sleep_fail"
  /\ pc' = [pc EXCEPT ![e] = "connect"]
  /\ backoff' = [backoff EXCEPT ![e] = backoff_after_failure(e, @)]
  /\ UNCHANGED <<wire, wlock, fails, prior, started, store, rlock, local, due, closed, handling, nev, readVars, net, scanVars>>

\* the subscribe message is sent (a failed send is only logged), then the
\* session's local map and timer are created
Subscribe(e) ==
  /\ pc[e] = "subscribe"
  /\ \E sent \in net.sends :
       /\ pc' = [pc EXCEPT ![e] = after_subscribe(sent)]
       /\ wire' = [wire EXCEPT ![e] =
                     [subs |-> @.subs + 1, sub_ok |-> sent,
                      failed |-> IF sent THEN 0 ELSE @.failed + 1,
                      reply |-> "none"]]
  /\ NewSession(e)
  /\ UNCHANGED <<wlock, fails, prior, started, store, rlock, backoff, handling, nev, readVars, net, scanVars>>

\* one second or more has passed since last_flush
Tick(e) ==
  /\ pc[e] = "stream"
  /\ ~due[e]
  /\ due' = [due EXCEPT ![e] = TRUE]
  /\ UNCHANGED <<wire, wlock, fails, prior, started, store, rlock, pc, local, backoff, closed, handling, nev, readVars, net, scanVars>>

\* read.next() yields ev and the loop body handles it up to the next await
Recv(e, ev) ==
  /\ pc[e] = "stream"
  /\ e \in closed => ev.k \in {"err", "end"}
  /\ Event
  /\ LET ctl == recv_ctl(e, ev)
         next == IF ctl = "break" THEN "sleep_end"
                 ELSE IF ctl = "flushcheck" /\ flush_now(due[e]) THEN "flush"
                 ELSE "stream"
     IN  /\ pc' = [pc EXCEPT ![e] = next]
         /\ handling' = [handling EXCEPT ![e] =
                           IF next = "flush" THEN FrameKind(ev) ELSE "none"]
         /\ local' = [local EXCEPT ![e] =
                        IF ev.k = "text" /\ ctl # "loop"
                        THEN on_text(e, @, ev.body) ELSE @]
         /\ closed' = IF ev.k = "close" /\ ctl # "break"
                      THEN closed \cup {e} ELSE closed
         /\ backoff' = [backoff EXCEPT ![e] =
                          IF ctl = "break" THEN backoff_after_session(e, @) ELSE @]
         /\ wire' = [wire EXCEPT ![e].reply = reply(e, ev)]
  /\ UNCHANGED <<wlock, fails, prior, started, store, rlock, due, readVars, net, scanVars>>

\* the flush: the write lock is taken when no reader and no writer holds the
\* lock, the values of the local map replace the vector under the connector's
\* key and the guard is dropped; there is no await between prices.write().await
\* returning and the drop, so the task holds the lock within this step only
Flush(e) ==
  /\ pc[e] = "flush"
  /\ rlock = {}
  /\ wlock = "none"
  /\ \E vec \in ValueVecs(local[e]) :
       store' = flush_insert(store, flush_key(e), vec)
  /\ due' = [due EXCEPT ![e] = FALSE]
  /\ pc' = [pc EXCEPT ![e] = "stream"]
  /\ handling' = [handling EXCEPT ![e] = "none"]
  /\ UNCHANGED <<wire, wlock, fails, prior, started, rlock, local, backoff, closed, nev, readVars, net, scanVars>>

\* the 2 s sleep after a session ends
WakeEnd(e) ==
  /\ pc[e] = "sleep_end"
  /\ pc' = [pc EXCEPT ![e] = "connect"]
  /\ UNCHANGED <<wire, wlock, fails, prior, started, store, rlock, local, due, backoff, closed, handling, nev, readVars, net, scanVars>>

(* ------------------------------- readers ------------------------------ *)
\* variant: the requested name is looked up as given only
gather_lookup_exact(map, ex) ==
  IF ex \in DOMAIN map THEN map[ex] ELSE <<>>

\* variant: a name with no vector of its own gets a vector that is stored
gather_lookup_any(map, ex) ==
  LET key == to_lowercase(ex)
  IN  IF key \in DOMAIN map THEN map[key]
      ELSE IF DOMAIN map # {} THEN map[CHOOSE k \in DOMAIN map : TRUE]
      ELSE <<>>

\* the vector one requested name contributes: lowercased key first, then
\* the name as given
gather_lookup(map, ex) ==
  LET key == to_lowercase(ex)
  IN  IF key \in DOMAIN map THEN map[key]
      ELSE IF ex \in DOMAIN map THEN map[ex]
      ELSE <<>>

\* `for ex in exchanges { merged.extend_from_slice(..) }`
RECURSIVE gather_merge(_, _, _)
gather_merge(map, exchanges, merged) ==
  IF exchanges = <<>> THEN merged
  ELSE gather_merge(map, Tail(exchanges), merged \o gather_lookup(map, Head(exchanges)))

Ok(v) == [ok |-> TRUE, val |-> v]

\* GLOBAL_PRICES.read().await returns: the read lock is held (a flush holds
\* the write lock for one step only)
GatherBegin(r, names) ==
  /\ started
  /\ wlock = "none"
  /\ rpc[r] \in {"idle", "scanned"}
  /\ Event
  /\ rlock' = rlock \cup {r}
  /\ rpc' = [rpc EXCEPT ![r] = "reading"]
  /\ req' = [req EXCEPT ![r] = names]
  /\ UNCHANGED <<wlock, started, store, result, opps, connVars, net, scanVars>>

\* the loop over the requested names, Ok(merged), and the read guard dropped
GatherEnd(r) ==
  /\ rpc[r] = "reading"
  /\ result' = [result EXCEPT ![r] = Ok(gather_merge(store, req[r], <<>>))]
  /\ rlock' = rlock \ {r}
  /\ rpc' = [rpc EXCEPT ![r] = "done"]
  /\ UNCHANGED <<wlock, started, store, req, opps, nev, connVars, net, scanVars>>

\* the scan of the gathered pairs: the orchestrator passes the pair list on
\* and returns the scanner's list; an Err of the gather is returned as it is
run_scan_result(gathered, out) ==
  IF gathered.ok THEN Ok(out) ELSE [ok |-> FALSE, val |-> <<>>]

RunScan(r) ==
  /\ rpc[r] = "done"
  /\ \E out \in find_triangular_opportunities(result[r].val, ReaderMinProfit) :
       opps' = [opps EXCEPT ![r] = run_scan_result(result[r], out)]
  /\ rpc' = [rpc EXCEPT ![r] = "scanned"]
  /\ UNCHANGED <<wlock, started, store, rlock, req, result, nev, connVars, net, scanVars>>

(* --------------------------- specification ---------------------------- *)
InitSystem ==
  /\ started = FALSE
  /\ store = EmptyMap
  /\ rlock = {}
  /\ wlock = "none"
  /\ pc = [e \in Exchanges |-> "unspawned"]
  /\ local = [e \in Exchanges |-> EmptyMap]
  /\ due = [e \in Exchanges |-> FALSE]
  /\ backoff = [e \in Exchanges |-> IF HasBackoff(e) THEN InitialBackoff ELSE 0]
  /\ fails = [e \in Exchanges |-> 0]
  /\ prior = [e \in Exchanges |-> 0]
  /\ closed = {}
  /\ handling = [e \in Exchanges |-> "none"]
  /\ wire = [e \in Exchanges |-> NoWrites]
  /\ rpc = [r \in Readers |-> "idle"]
  /\ req = [r \in Readers |-> <<>>]
  /\ result = [r \in Readers |-> Ok(<<>>)]
  /\ opps = [r \in Readers |-> Ok(<<>>)]
  /\ nev = 0

Init ==
  /\ InitSystem
  /\ net = [up |-> Exchanges, quota |-> MaxEvents, sends |-> {TRUE},
            initial |-> MainInitial]
  /\ sin = NoScan
  /\ sout = <<>>
  /\ call = NoCall

Next ==
  \/ StartWrite
  \/ start_all_workers
  \/ KucoinToken
  \/ \E e \in Exchanges : ConnectOk(e)
  \/ \E e \in Exchanges : ConnectErr(e)
  \/ \E e \in Exchanges : WakeFail(e)
  \/ \E e \in Exchanges \ {"binance"} : Subscribe(e)
  \/ \E e \in Exchanges : Tick(e)
  \/ \E e \in Exchanges : \E ev \in Events(e) : Recv(e, ev)
  \/ \E e \in Exchanges : Flush(e)
  \/ \E e \in Exchanges : WakeEnd(e)
  \/ \E r \in Readers : \E names \in Requests : GatherBegin(r, names)
  \/ \E r \in Readers : GatherEnd(r)
  \/ \E r \in Readers : RunScan(r)

Spec == Init /\ [][Next]_vars

\* the runs in which only the bybit and kucoin servers answer
InitPair ==
  /\ InitSystem
  /\ net = [up |-> {"bybit", "kucoin"}, quota |-> PairEvents, sends |-> {TRUE},
            initial |-> MainInitial]
  /\ sin = NoScan
  /\ sout = <<>>
  /\ call = NoCall

SpecPair == InitPair /\ [][Next]_vars

\* the scanner on its own: a pair list, a threshold and a neighbor limit are
\* drawn, and find_triangular_opportunities' body is run on them
InitScan ==
  /\ InitSystem
  /\ net = [up |-> Exchanges, quota |-> MaxEvents, sends |-> {TRUE},
            initial |-> MainInitial]
  /\ sin \in ScanInputs
  /\ sout = <<>>
  /\ call = NoCall

Scan ==
  /\ Len(sout) < MaxScans
  /\ \E out \in scan_results(sin.pairs, sin.min_profit_after, sin.fee_per_leg_pct,
                              sin.neighbor_limit) :
       sout' = Append(sout, out)
  /\ UNCHANGED <<wlock, started, store, rlock, nev, net, sin, call, connVars, readVars>>

NextScan == Scan

SpecScan == InitScan /\ [][NextScan]_vars

\* the scanner on its own under each fee
InitFee ==
  /\ InitSystem
  /\ net = [up |-> Exchanges, quota |-> MaxEvents, sends |-> {TRUE},
            initial |-> MainInitial]
  /\ sin \in FeeInputs
  /\ sout = <<>>
  /\ call = NoCall

SpecFee == InitFee /\ [][NextScan]_vars

\* the symbol splitters on their own: a connector, a non-empty base and a quote
\* of that connector's suffix list are drawn, and the connector's splitter is
\* run on the concatenation
SplitBases ==
  {<<"W">>, S_BTC, S_ETH, S_BNB, S_USDT, S_BUSD, <<"W">> \o S_BTC, <<"B">> \o S_ETH}

SplitInputs ==
  {[connector |-> "binance", base |-> b, quote |-> BinanceSuffixes[i]] :
     b \in SplitBases, i \in 1..Len(BinanceSuffixes)}
  \cup {[connector |-> "bybit", base |-> b, quote |-> BybitSuffixes[i]] :
          b \in SplitBases, i \in 1..Len(BybitSuffixes)}

InitSplit ==
  /\ InitSystem
  /\ net = [up |-> Exchanges, quota |-> MaxEvents, sends |-> {TRUE},
            initial |-> MainInitial]
  /\ sin \in SplitInputs
  /\ sout = <<>>
  /\ call = NoCall

SplitBinance ==
  /\ sin.connector = "binance"
  /\ sout = <<>>
  /\ sout' = <<split_symbol_binance(sin.base \o sin.quote)>>
  /\ UNCHANGED <<wlock, started, store, rlock, nev, net, sin, call, connVars, readVars>>

SplitBybit ==
  /\ sin.connector = "bybit"
  /\ sout = <<>>
  /\ sout' = <<split_symbol(sin.base \o sin.quote)>>
  /\ UNCHANGED <<wlock, started, store, rlock, nev, net, sin, call, connVars, readVars>>

NextSplit == SplitBinance \/ SplitBybit

SpecSplit == InitSplit /\ [][NextSplit]_vars

\* the reconnect loops on their own: the servers refuse or accept connects
\* and end the stream without a frame, no request is served; the event budget
\* lets one connector fail often enough to reach max_backoff
EndOfStream == Ev("end", Body("none", <<>>))

InitBackoff ==
  /\ InitSystem
  /\ net = [up |-> Exchanges, quota |-> BackoffEvents, sends |-> BOOLEAN,
            initial |-> MainInitial]
  /\ sin = NoScan
  /\ sout = <<>>
  /\ call = NoCall

NextBackoff ==
  \/ StartWrite
  \/ start_all_workers
  \/ KucoinToken
  \/ \E e \in Exchanges : ConnectOk(e)
  \/ \E e \in Exchanges : ConnectErr(e)
  \/ \E e \in Exchanges : WakeFail(e)
  \/ \E e \in Exchanges \ {"binance"} : Subscribe(e)
  \/ \E e \in Exchanges : Recv(e, EndOfStream)
  \/ \E e \in Exchanges : WakeEnd(e)

SpecBackoff == InitBackoff /\ [][NextBackoff]_vars

\* the connectors that send a subscribe message on their own: writes on the
\* sockets may fail, and the feeds of those that split at a separator carry
\* symbols with an empty side as well
InitWire ==
  /\ InitSystem
  /\ net = [up |-> {"bybit", "kucoin", "gateio"}, quota |-> WireEvents, sends |-> BOOLEAN,
            initial |-> MainInitial]
  /\ sin = NoScan
  /\ sout = <<>>
  /\ call = NoCall

NextWire ==
  \/ Next
  \/ \E e \in Exchanges : \E ev \in OddEvents(e) : Recv(e, ev)

SpecWire == InitWire /\ [][NextWire]_vars

\* the runs with what the runtime guarantees: a task that can take its
\* next step takes it, a timer that has been set fires; what the peers send,
\* and whether they send, is left open.  start_all_workers is given any of
\* the handles, and the binance and bybit servers answer
InitLive ==
  /\ InitSystem
  /\ net \in {[up |-> {"binance", "bybit"}, quota |-> LiveEvents, sends |-> {TRUE},
               initial |-> i] : i \in Initials}
  /\ sin = NoScan
  /\ sout = <<>>
  /\ call = NoCall

Scheduling ==
  /\ WF_vars(StartWrite)
  /\ WF_vars(start_all_workers)
  /\ \A e \in Exchanges :
       /\ WF_vars(Subscribe(e))
       /\ WF_vars(Tick(e))
       /\ SF_vars(Flush(e))
       /\ WF_vars(WakeFail(e))
       /\ WF_vars(WakeEnd(e))
  /\ \A r \in Readers : WF_vars(GatherEnd(r)) /\ WF_vars(RunScan(r))

SpecLive == InitLive /\ [][Next]_vars /\ Scheduling

(* ----------------------------- scan_handler --------------------------- *)
\* seconds a fetch may take: kucoin's, and the others'
FetchTimeout == 15
KucoinFetchTimeout == 20

\* seconds between two readings of the clock
ClockStep == 5

\* exchange names a request carries at most
MaxRequested == 2

N_gate == <<"g", "a", "t", "e">>

\* the arm of the match a requested name falls into: the exchange whose
\* fetch is spawned, "other" for the arm that rejects the request
fetch_arm(ex) ==
  LET l == to_lowercase(ex)
  IN  CASE l = K_binance          -> "binance"
        [] l = K_bybit            -> "bybit"
        [] l = K_kucoin           -> "kucoin"
        [] l \in {N_gate, K_gateio} -> "gateio"
        [] OTHER                  -> "other"

fetch_limit(name) == IF name = "kucoin" THEN KucoinFetchTimeout ELSE FetchTimeout

\* a fetch with no bound on its duration
timed_out_never(t) == FALSE

\* tokio::time::timeout(limit, fetch): the limit has passed
timed_out(t) == t.elapsed >= t.limit

\* what the vector a fetch returns holds
FetchedPairs == Triangle(Five, Three, One)

\* the exchange lists of the requests
ExchangeLists == Requests \cup {<<N_gate>>}

\* what a fetch does: return Ok(pairs), return Err, panic, never return
FetchOutcomes == {"ok", "err", "panic", "never"}

\* logic::scan_triangles on the price map of the merged pairs, with the
\* handler's fee of 0.10 per leg
scan_triangles(merged_pairs, min_profit) ==
  find_triangular_opportunities(merged_pairs, min_profit)

\* the lists merged_pairs can hold when the loop over the tasks has ended
RECURSIVE MergedLists(_)
MergedLists(n) ==
  IF n = 0 THEN {<<>>} ELSE {<<>>} \cup {FetchedPairs \o m : m \in MergedLists(n - 1)}

\* a request, what the fetch of each exchange it names does, and the table
\* of what the scan returns for each list the call can merge
\* the exchanges whose fetch a request may start
Requested(x) == {fetch_arm(x[j]) : j \in 1..Len(x)}

\* what the fetches may do: the choice is open for the requested exchanges
FetchChoices(x) ==
  {f \in [Exchanges -> FetchOutcomes] :
     \A e \in Exchanges \ Requested(x) : f[e] = "ok"}

HandlerInputs ==
  UNION {LET table == [m \in MergedLists(Len(x)) |->
                         scan_triangles(m, ReaderMinProfit)]
         IN  {[exchanges |-> x, min_profit |-> ReaderMinProfit, fetch |-> f,
               scan |-> table] : f \in FetchChoices(x)} :
           x \in ExchangeLists}

\* the end of the loop over payload.exchanges: the handler goes on to await
\* its tasks
after_spawn(c, x) ==
  IF c.pc = "spawn" /\ c.i > Len(x) THEN [c EXCEPT !.pc = "await", !.i = 1] ELSE c

InitHandler ==
  /\ InitSystem
  /\ net = [up |-> Exchanges, quota |-> MaxEvents, sends |-> {TRUE},
            initial |-> MainInitial]
  /\ sin \in HandlerInputs
  /\ sout = <<>>
  /\ call = after_spawn([NoCall EXCEPT !.pc = "spawn", !.i = 1], sin.exchanges)

HandlerFrame == UNCHANGED <<wlock, started, store, rlock, nev, net, sin, sout, connVars, readVars>>

\* one turn of the loop over payload.exchanges: the task of a supported name
\* is spawned, another name ends the handler with 400
HandlerSpawn ==
  /\ call.pc = "spawn"
  /\ LET ex == sin.exchanges[call.i]
         arm == fetch_arm(ex)
     IN  IF arm = "other"
         THEN call' = [call EXCEPT !.pc = "done",
                         !.response = [status |-> "BAD_REQUEST",
                                       unsupported |-> to_lowercase(ex)]]
         ELSE call' = after_spawn(
                        [call EXCEPT !.i = @ + 1,
                           !.tasks = Append(@, [name |-> arm, limit |-> fetch_limit(arm),
                                                state |-> "fetching", elapsed |-> 0,
                                                res |-> <<>>])],
                        sin.exchanges)
  /\ HandlerFrame

\* the fetch of task k returns, or panics, before the timeout has fired
FetchReturns(k) ==
  /\ k \in 1..Len(call.tasks)
  /\ call.tasks[k].state = "fetching"
  /\ LET name == call.tasks[k].name
         res  == CASE sin.fetch[name] = "ok"    -> [join |-> TRUE, ok |-> TRUE, val |-> FetchedPairs]
                   [] sin.fetch[name] = "err"   -> [join |-> TRUE, ok |-> FALSE, val |-> <<name, "err">>]
                   [] sin.fetch[name] = "panic" -> [join |-> FALSE, ok |-> FALSE, val |-> <<"task join err">>]
                   [] OTHER                     -> <<>>
     IN  /\ sin.fetch[name] # "never"
         /\ call' = [call EXCEPT !.tasks[k].state = "done", !.tasks[k].res = res]
  /\ HandlerFrame

\* the timeout around the fetch of task k fires
FetchTimesOut(k) ==
  /\ k \in 1..Len(call.tasks)
  /\ call.tasks[k].state = "fetching"
  /\ timed_out(call.tasks[k])
  /\ call' = [call EXCEPT !.tasks[k].state = "done",
                 !.tasks[k].res = [join |-> TRUE, ok |-> FALSE,
                                   val |-> <<call.tasks[k].name, "timeout">>]]
  /\ HandlerFrame

\* time passes, ClockStep seconds at once; a timer whose limit has passed
\* fires before the next step, and the loop that spawns the tasks, which
\* awaits nothing, takes no time
ClockTick ==
  /\ call.pc # "spawn"
  /\ \E k \in 1..Len(call.tasks) : call.tasks[k].state = "fetching"
  /\ \A k \in 1..Len(call.tasks) :
       call.tasks[k].state = "fetching" => call.tasks[k].elapsed < call.tasks[k].limit
  /\ call' = [call EXCEPT !.tasks =
                 [k \in 1..Len(call.tasks) |->
                    IF call.tasks[k].state = "fetching"
                    THEN [call.tasks[k] EXCEPT !.elapsed = @ + ClockStep]
                    ELSE call.tasks[k]]]
  /\ HandlerFrame

\* one turn of the loop over the tasks: `t.await` returns and its result
\* goes to merged_pairs or to errors
HandlerAwait ==
  /\ call.pc = "await"
  /\ call.i <= Len(call.tasks)
  /\ call.tasks[call.i].state = "done"
  /\ LET res == call.tasks[call.i].res
     IN  call' = IF res.join /\ res.ok
                 THEN [call EXCEPT !.i = @ + 1, !.merged_pairs = @ \o res.val]
                 ELSE [call EXCEPT !.i = @ + 1, !.errors = Append(@, res.val)]
  /\ HandlerFrame

\* the scan of the merged pairs and the 200 response
HandlerRespond ==
  /\ call.pc = "await"
  /\ call.i > Len(call.tasks)
  /\ \E out \in sin.scan[call.merged_pairs] :
       call' = [call EXCEPT !.pc = "done",
                  !.response = [status |-> "OK", errors |-> call.errors,
                                count_pairs |-> Len(call.merged_pairs),
                                count_opportunities |-> Len(out),
                                results |-> out]]
  /\ HandlerFrame

NextHandler ==
  \/ HandlerSpawn
  \/ \E k \in 1..MaxRequested : FetchReturns(k)
  \/ \E k \in 1..MaxRequested : FetchTimesOut(k)
  \/ ClockTick
  \/ HandlerAwait
  \/ HandlerRespond

\* the handler and its timers make their steps; the fetches answer or not
HandlerScheduling ==
  /\ WF_vars(HandlerSpawn)
  /\ WF_vars(HandlerAwait)
  /\ WF_vars(HandlerRespond)
  /\ WF_vars(ClockTick)
  /\ \A k \in 1..MaxRequested : WF_vars(FetchTimesOut(k))

SpecHandler == InitHandler /\ [][NextHandler]_vars /\ HandlerScheduling

\* the handling of a ticker message on its own: a connector, a local map it
\* may hold (none or one handled message) and the tickers of a message are
\* drawn; the loop over the tickers is run on them and the values of the map
\* are collected as the flush does
PriorMaps(e) == {EmptyMap} \cup {on_items(e, EmptyMap, b) : b \in Batches(e)}

TickInputs ==
  UNION {{[connector |-> e, local |-> m, items |-> b] :
            m \in PriorMaps(e), b \in Batches(e)} : e \in Exchanges}

InitTick ==
  /\ InitSystem
  /\ net = [up |-> Exchanges, quota |-> MaxEvents, sends |-> {TRUE},
            initial |-> MainInitial]
  /\ sin \in TickInputs
  /\ sout = <<>>
  /\ call = NoCall

TickHandle ==
  /\ sout = <<>>
  /\ sout' = <<on_items(sin.connector, sin.local, sin.items)>>
  /\ UNCHANGED <<wlock, started, store, rlock, nev, net, sin, call, connVars, readVars>>

TickCollect ==
  /\ Len(sout) = 1
  /\ \E vec \in ValueVecs(sout[1]) : sout' = Append(sout, vec)
  /\ UNCHANGED <<wlock, started, store, rlock, nev, net, sin, call, connVars, readVars>>

NextTick == TickHandle \/ TickCollect

SpecTick == InitTick /\ [][NextTick]_vars

(* ----------------------------- properties ----------------------------- *)
\* the vector stored under key k, <<>> when the key is absent
StoredUnder(map, k) == IF k \in DOMAIN map THEN map[k] ELSE <<>>

\* whether the entry under key k differs between two maps
Rewritten(m1, m2, k) ==
  (k \in DOMAIN m1) # (k \in DOMAIN m2) \/ StoredUnder(m1, k) # StoredUnder(m2, k)

\* the concatenation, in request order, of the vectors stored under the
\* lowercased names
RECURSIVE ConcatStored(_, _)
ConcatStored(map, names) ==
  IF names = <<>> THEN <<>>
  ELSE StoredUnder(map, to_lowercase(Head(names))) \o ConcatStored(map, Tail(names))

AllKeys == {K_binance, K_bybit, K_kucoin, K_gateio}

\* the connector named by a store key
Owner(k) ==
  CASE k = K_binance -> "binance"
    [] k = K_bybit   -> "bybit"
    [] k = K_kucoin  -> "kucoin"
    [] k = K_gateio  -> "gateio"

\* C1: a reader obtains, for an exchange, exactly one complete flushed vector:
\* the entry under a key changes only in a step taken while no reader holds
\* the lock, and then becomes exactly the values of the flushing connector's
\* local map (whole replace, nothing kept from the previous flush); and what
\* a reader returns is, name by name, the whole vector stored when it read.
C1_AtomicReplace ==
  [][ /\ \A k \in (DOMAIN store) \cup (DOMAIN store') :
           Rewritten(store, store', k) =>
             /\ rlock = {}
             /\ \E e \in Exchanges :
                  /\ k = flush_key(e)
                  /\ pc[e] = "flush"
                  /\ store'[k] \in ValueVecs(local[e])
      /\ \A r \in Readers :
           rpc[r] = "reading" =>
             /\ store' = store
             /\ rpc'[r] = "done" =>
                  result'[r].val = ConcatStored(store, req[r])
    ]_vars

\* C1 witness: a reader holds the read lock on a store that has a flushed
\* vector while the connector of that vector waits to flush a different one
C1_Witness ==
  \E r \in Readers : \E e \in Exchanges :
    /\ rpc[r] = "reading"
    /\ \E i \in 1..Len(req[r]) : to_lowercase(req[r][i]) = flush_key(e)
    /\ pc[e] = "flush"
    /\ flush_key(e) \in DOMAIN store
    /\ store[flush_key(e)] # <<>>
    /\ store[flush_key(e)] \notin ValueVecs(local[e])

\* C2: after start_all_workers has returned, the entry under a key changes
\* only in the flush of the connector that owns the key, the key is one of
\* the four exchange keys, and that step leaves every other key's entry
\* unchanged.
C2_OwnKeyOnly ==
  [][ started =>
        \A k \in (DOMAIN store) \cup (DOMAIN store') :
          Rewritten(store, store', k) =>
            /\ k \in AllKeys
            /\ pc[Owner(k)] = "flush"
            /\ pc'[Owner(k)] = "stream"
            /\ \A k2 \in ((DOMAIN store) \cup (DOMAIN store')) \ {k} :
                 ~Rewritten(store, store', k2)
    ]_vars

\* C2 witness: two connectors have flushed non-empty vectors under their keys
C2_Witness ==
  /\ started
  /\ \E k1, k2 \in DOMAIN store :
       k1 # k2 /\ store[k1] # <<>> /\ store[k2] # <<>>

\* C3: no failure makes a connector task return (as stated: the kucoin
\* connector included, when its token request fails or yields no token).
C3_NoTaskReturns == \A e \in Exchanges : pc[e] # "returned"

C5_NoFlushAtSessionEnd ==
  [][ \A e \in Exchanges :
        /\ handling[e] = "close" => ~Rewritten(store, store', flush_key(e))
        /\ pc[e] = "stream" /\ pc'[e] = "sleep_end" =>
             ~Rewritten(store, store', flush_key(e))
        /\ pc[e] \in {"connect", "subscribe"} /\ pc'[e] = "stream" =>
             local'[e] = EmptyMap
    ]_vars

\* C6 (as stated): every stored PairPrice has a strictly positive, finite price
C6_StoredPricesPositiveFinite ==
  \A k \in DOMAIN store : \A i \in 1..Len(store[k]) :
    GtZero(store[k][i].price) /\ is_finite(store[k][i].price)

\* C7: gather_prices_for_exchanges returns Ok with the concatenation, in
\* request order, of the vectors stored under the lowercased requested names
\* (nothing for a name with no vector), and the store is unchanged between
\* the taking of the read lock and the return.
C7_GatherConcat ==
  [][ \A r \in Readers :
        /\ rpc'[r] = "reading" => store' = store
        /\ rpc[r] = "reading" =>
             /\ store' = store
             /\ rpc'[r] = "done" =>
                  /\ result'[r].ok
                  /\ result'[r].val = ConcatStored(store, req[r])
    ]_vars

\* C7 witness: a call has returned the vectors of two exchanges, one requested
\* in upper case, in the order of a request that differs from the key order,
\* and a call has returned nothing for an unknown name beside a known one
C7_Witness ==
  \E r \in Readers :
    /\ rpc[r] = "done"
    /\ req[r] = <<N_BYBIT, K_kucoin>>
    /\ StoredUnder(store, K_bybit) # <<>>
    /\ StoredUnder(store, K_kucoin) # <<>>
    /\ StoredUnder(store, K_bybit) # StoredUnder(store, K_kucoin)
    /\ result[r] = Ok(store[K_bybit] \o store[K_kucoin])

\* no vector, or an empty one, is stored under the name in any letter case
NoDataFor(map, name) ==
  \A k \in DOMAIN map : to_lowercase(k) = to_lowercase(name) => map[k] = <<>>

\* C8: a scan requested for exchanges that have no data in the store returns
\* an empty opportunity list and no error: the read of names without data
\* returns Ok with an empty pair list, and the scan of an empty pair list
\* returns an empty list.
C8_NoDataEmptyScan ==
  [][ \A r \in Readers :
        /\ rpc[r] = "reading" /\ rpc'[r] = "done"
             /\ (\A i \in 1..Len(req[r]) : NoDataFor(store, req[r][i])) =>
             result'[r] = Ok(<<>>)
        /\ rpc[r] = "done" /\ rpc'[r] = "scanned" /\ result[r] = Ok(<<>>) =>
             opps'[r] = Ok(<<>>)
    ]_vars

\* C8 witness: a scan for a name that has no data, requested while another
\* exchange has data in the store, has returned the empty list
C8_Witness ==
  \E r \in Readers :
    /\ rpc[r] = "scanned"
    /\ req[r] # <<>>
    /\ \A i \in 1..Len(req[r]) : NoDataFor(store, req[r][i])
    /\ \E k \in DOMAIN store : store[k] # <<>>
    /\ result[r] = Ok(<<>>)
    /\ opps[r] = Ok(<<>>)

\* the three currencies of an opportunity, read from its pairs "a/b", "b/c"
CycleOf(o) ==
  LET p1 == split(o.pairs[1], "/")
      p2 == split(o.pairs[2], "/")
  IN  <<p1[1], p1[2], p2[2]>>

Rotations(t) == {t, <<t[2], t[3], t[1]>>, <<t[3], t[1], t[2]>>}

\* C9: in every list a scan returns, no two opportunities are rotations of
\* each other (nor the same cycle twice).
C9_NoTwoRotations ==
  \A k \in 1..Len(sout) :
    \A i, j \in 1..Len(sout[k]) :
      i # j => CycleOf(sout[k][i]) \notin Rotations(CycleOf(sout[k][j]))

\* C9 witness: two scans of one triangle, each of whose nodes can discover
\* the cycle, have reported it once each, from different starting nodes
C9_Witness ==
  /\ Len(sout) = 2
  /\ sin.neighbor_limit >= 2
  /\ Len(sout[1]) = 1 /\ Len(sout[2]) = 1
  /\ CycleOf(sout[1][1]) # CycleOf(sout[2][1])
  /\ CycleOf(sout[1][1]) \in Rotations(CycleOf(sout[2][1]))

\* the cycles of a list, each as the smallest of its rotations
CanonicalCycles(out) ==
  {CHOOSE r \in Rotations(CycleOf(out[i])) :
     \A o \in Rotations(CycleOf(out[i])) : ~TripleLess(o, r) : i \in 1..Len(out)}

\* C10 (as stated): two scans of the same input return the same set of
\* opportunities: as many, with the same canonical triangles.
C10_SameSetTwice ==
  Len(sout) >= 2 =>
    /\ Len(sout[1]) = Len(sout[2])
    /\ CanonicalCycles(sout[1]) = CanonicalCycles(sout[2])

\* the opportunities whose cycle runs through the currency x
Through(out, x) ==
  {i \in 1..Len(out) : x \in {CycleOf(out[i])[j] : j \in 1..3}}

\* C11: every emitted opportunity has profit_before > 0 and profit_after not
\* below the requested minimum, and a cycle of gross exactly 1 is never
\* emitted, whatever the minimum: the scan of the gross-1 list is empty, and
\* beside a profitable cycle only that one (through D) is emitted.
C11_ProfitBounds ==
  \A k \in 1..Len(sout) :
    /\ \A i \in 1..Len(sout[k]) :
         /\ GtZero(sout[k][i].profit_before)
         /\ ~FLess(sout[k][i].profit_after, sin.min_profit_after)
    /\ sin.pairs = GrossOne => sout[k] = <<>>
    /\ sin.pairs = GrossOneAndProfit => Through(sout[k], cD) = 1..Len(sout[k])

\* C11 witness: with a minimum below zero, the scan of the list holding a
\* gross-1 cycle and a profitable one has emitted the profitable one alone
C11_Witness ==
  /\ Len(sout) >= 1
  /\ sin.pairs = GrossOneAndProfit
  /\ sin.min_profit_after = F(-1, 1)
  /\ sin.neighbor_limit = neighbor_limit
  /\ Len(sout[1]) = 1
  /\ Through(sout[1], cD) = {1}

\* the graph of the scanned pairs, and the rate of its edge a -> b
ScannedGraph == build_graph([adj |-> EmptyMap, vol_map |-> EmptyMap], sin.pairs)

RateOf(a, b) == ScannedGraph.adj[a][b]

\* rate(a,b) * rate(b,c) * rate(c,a) for the cycle of the opportunity o
GrossOf(o) ==
  LET t == CycleOf(o)
  IN  FMul(FMul(RateOf(t[1], t[2]), RateOf(t[2], t[3])), RateOf(t[3], t[1]))

\* (1 - fee / 100)^3 for the fee of the scan
FeeCubed == FPow3(FSub(F(1, 1), FDiv(sin.fee_per_leg_pct, F(100, 1))))

\* lo < x < hi
Between(lo, x, hi) == FLess(lo, x) /\ FLess(x, hi)

\* the scans of scenario 1: the three pairs, every neighbor kept, a minimum
\* below the profit of the cycle
Scenario1 ==
  /\ sin.pairs \in {Triangle(F(0, 1), F(0, 1), F(0, 1)),
                     Triangle(F(5, 1), F(3, 1), F(1, 1)),
                     Triangle(F(5, 1), F(5, 1), F(1, 1))}
  /\ sin.fee_per_leg_pct = F(1, 10)
  /\ sin.neighbor_limit = neighbor_limit
  /\ FLess(sin.min_profit_after, F(19, 1))

C13_SortedResult ==
  \A k \in 1..Len(sout) :
    \A i \in 1..(Len(sout[k]) - 1) :
      LET x == sout[k][i]
          y == sout[k][i + 1]
      IN  \/ FLess(y.profit_after, x.profit_after)
          \/ /\ x.profit_after = y.profit_after
             /\ ~FLess(x.score_liquidity, y.score_liquidity)

\* two scans each returned two opportunities of equal profit, the one of the
\* greater liquidity first
C13_Witness ==
  /\ Len(sout) = 2
  /\ Len(sout[1]) = 2 /\ Len(sout[2]) = 2
  /\ sout[1][1].profit_after = sout[1][2].profit_after
  /\ FLess(sout[1][2].score_liquidity, sout[1][1].score_liquidity)
  /\ sin.pairs = EqualProfits

\* the neighbors maps the scan of the graph g may build
NeighborsOf(g) == neighbor_maps(g, DOMAIN g.adj, sin.neighbor_limit)

\* C14: in every neighbors map the scan may build, the list of each node has
\* no duplicates, holds min(neighbor_limit, out-degree) of the node's
\* targets, and no retained target has less liquidity than a dropped one;
\* with limit 1, node A of the triangle with volume 5 on A/B and 1 on C/A
\* retains B alone.
C14_NeighborLists ==
  LET g == ScannedGraph
  IN  \A m \in NeighborsOf(g) :
        /\ \A base \in DOMAIN g.adj :
             LET out == DOMAIN g.adj[base]
                 kept == {m[base][i] : i \in 1..Len(m[base])}
             IN  /\ Cardinality(kept) = Len(m[base])
                 /\ kept \subseteq out
                 /\ Len(m[base]) = Min(sin.neighbor_limit, Cardinality(out))
                 /\ \A q \in kept, d \in out \ kept :
                      ~FLess(volume_of(g.vol_map, base, q),
                             volume_of(g.vol_map, base, d))
        /\ sin.neighbor_limit = 1 /\ sin.pairs = Triangle(F(5, 1), F(3, 1), F(1, 1))
             => m[cA] = <<cB>>

\* the triangle has been scanned with limit 1: A has the targets B and C and
\* keeps one
C14_Witness ==
  /\ Len(sout) >= 1
  /\ sin.neighbor_limit = 1
  /\ sin.pairs = Triangle(F(5, 1), F(3, 1), F(1, 1))
  /\ DOMAIN ScannedGraph.adj[cA] = {cB, cC}
  /\ \E m \in NeighborsOf(ScannedGraph) : Len(m[cA]) = 1

\* a pair the claim says contributes no edge: not spot, or a price that is
\* zero, negative, NaN or infinite
NoEdgePair(p) == ~p.is_spot \/ ~GtZero(p.price) \/ ~is_finite(p.price)

\* C15 (as stated): once the pairs are scanned, every rate in the adjacency
\* map is strictly positive and finite, and where every pair of the list is
\* one that contributes no edge, the map has none in either direction.
C15_RatesPositiveFinite ==
  Len(sout) >= 1 =>
    LET g == ScannedGraph
    IN  /\ \A a \in DOMAIN g.adj : \A b \in DOMAIN g.adj[a] :
             GtZero(g.adj[a][b]) /\ is_finite(g.adj[a][b])
        /\ (\A i \in 1..Len(sin.pairs) : NoEdgePair(sin.pairs[i]))
             => g.adj = EmptyMap

\* the profit_after the scanner computes for the cycle of gross `gross`
\* under the fee
ProfitAfterAt(gross, fee) ==
  FMul(FSub(FMul(gross, fee_factor(fee)), F(1, 1)), F(100, 1))

\* C16: a higher fee never gives a higher profit after fees: for every
\* opportunity a scan emits under its fee, the profit_after of the same cycle
\* is no higher under any higher fee and no lower under any lower fee.
C16_FeeMonotone ==
  Len(sout) >= 1 =>
    \A i \in 1..Len(sout[Len(sout)]) :
      LET o == sout[Len(sout)][i]
          gross == GrossOf(o)
      IN  \A f \in Fees :
            LET at_f == ProfitAfterAt(gross, f)
            IN  /\ f = sin.fee_per_leg_pct => at_f = o.profit_after
                /\ FLess(sin.fee_per_leg_pct, f) => ~FLess(o.profit_after, at_f)
                /\ FLess(f, sin.fee_per_leg_pct) => ~FLess(at_f, o.profit_after)

\* a cycle was emitted under the fee of 1%, and its profit is lower under 50%
\* and higher under 0.1%
C16_Witness ==
  /\ Len(sout) >= 1
  /\ sin.fee_per_leg_pct = F(1, 1)
  /\ Len(sout[1]) >= 1
  /\ FLess(ProfitAfterAt(GrossOf(sout[1][1]), F(50, 1)), sout[1][1].profit_after)
  /\ FLess(sout[1][1].profit_after, ProfitAfterAt(GrossOf(sout[1][1]), fee_per_leg_pct))

\* C17: once a splitter has run on base+quote, with a non-empty base and a quote
\* of the connector's suffix list, what it returned is exactly (base, quote)
C17_SplitRoundTrip ==
  sout # <<>> => sout[1] = <<sin.base, sin.quote>>

\* C18: no task is at an await (a network read or write, a timer, the
\* acquisition of another lock) while it holds the store's write lock
C18_NoAwaitUnderWriteLock ==
  wlock = "none"

\* the delay a connector waits after its first connect failure
InitialDelay(e) == IF HasBackoff(e) THEN InitialBackoff ELSE RetryDelay

\* the delay of the sleep a connector is in after a connect failure
Delay(e) == connect_wait(e, backoff[e])

\* the delay after the k-th connect failure in a row when delays double
Doubled(initial, k) == Min(initial * 2 ^ (k - 1), MaxBackoff)

\* C19: every connector that sleeps after its k-th connect failure in a row
\* sleeps min(initial * 2^(k-1), max) seconds
C19_ExponentialBackoff ==
  \A e \in Exchanges :
    pc[e] = "sleep_fail" => Delay(e) = Doubled(InitialDelay(e), fails[e])

\* C20: a bybit or gateio connector that attempts a connect with no connect
\* failure since its last session has backoff = 2, whatever failures preceded
\* that session's connect, and the first failure that follows sleeps 2 s
C20_InitialBackoffAfterSession ==
  \A e \in {"bybit", "gateio"} :
    /\ (pc[e] \in {"sleep_end", "connect"} /\ fails[e] = 0) => backoff[e] = InitialBackoff
    /\ (pc[e] = "sleep_fail" /\ fails[e] = 1) => Delay(e) = InitialBackoff

\* gateio has failed three times, connected, lost the session, failed again
\* and sleeps 2 s
C20_Witness ==
  /\ pc["gateio"] = "sleep_fail"
  /\ fails["gateio"] = 1
  /\ prior["gateio"] = 3
  /\ Delay("gateio") = InitialBackoff

\* the smallest of the rotations of the triple t
CanonicalOf(t) ==
  CHOOSE r \in Rotations(t) : \A o \in Rotations(t) : ~TripleLess(o, r)

\* C26 (as stated): every opportunity a scan emits names three pairwise
\* distinct currencies a, b, c, with b in the neighbor list of a, c in that of
\* b, and the edge c -> a in the graph, whatever the pair list (a pair of a
\* currency with itself included)
C26_DistinctCurrencies ==
  \A k \in 1..Len(sout) : \A i \in 1..Len(sout[k]) :
    LET t == CycleOf(sout[k][i])
        g == ScannedGraph
    IN  /\ t[1] # t[2] /\ t[2] # t[3] /\ t[3] # t[1]
        /\ \E m \in NeighborsOf(g) :
             /\ \E j \in 1..Len(m[t[1]]) : m[t[1]][j] = t[2]
             /\ \E j \in 1..Len(m[t[2]]) : m[t[2]][j] = t[3]
        /\ t[1] \in DOMAIN g.adj[t[3]]

\* C27 (as stated): once the pairs are scanned, no currency has an edge to
\* itself in the adjacency map, nor itself in a neighbor list the scan may
\* build, a pair with equal base and quote in the list included
C27_NoSelfLoop ==
  Len(sout) >= 1 =>
    LET g == ScannedGraph
    IN  \A x \in DOMAIN g.adj :
          /\ x \notin DOMAIN g.adj[x]
          /\ \A m \in NeighborsOf(g) : \A j \in 1..Len(m[x]) : m[x][j] # x

\* C28 (as stated): the triangle every emitted opportunity reports is the
\* smallest of the three rotations of its cycle, whichever node the scan
\* found the cycle from
C28_CanonicalReported ==
  \A k \in 1..Len(sout) : \A i \in 1..Len(sout[k]) :
    LET t == CycleOf(sout[k][i])
        c == CanonicalOf(t)
    IN  /\ t = c
        /\ sout[k][i].triangle = triangle_fmt(c[1], c[2], c[3])

\* the connectors that send a subscribe message
Subscribers == Exchanges \ {"binance"}

\* the steps of a task between start and reconnect loop, and those of the
\* loop: Connecting (connect), Subscribed (subscribe), Streaming (stream,
\* flush), Disconnected (sleep_end after a session, sleep_fail after a failed
\* connect)
StartSteps ==
  {<<"unspawned", "connect">>, <<"unspawned", "token">>, <<"token", "connect">>,
   <<"token", "returned">>}

CycleSteps ==
  {<<"connect", "subscribe">>, <<"subscribe", "stream">>, <<"stream", "flush">>,
   <<"flush", "stream">>, <<"stream", "sleep_end">>, <<"sleep_end", "connect">>,
   <<"connect", "sleep_fail">>, <<"sleep_fail", "connect">>}

\* what the cycle requires of the connectors in S, the subscribe message
\* being that of the connectors in S as well
FollowsCycle(S) ==
  \A e \in S :
    /\ pc'[e] # pc[e] => <<pc[e], pc'[e]>> \in StartSteps \cup CycleSteps
    /\ pc[e] = "connect" /\ pc'[e] = "subscribe" => wire'[e].subs = 0
    /\ pc[e] = "subscribe" /\ pc'[e] # "subscribe" =>
         pc'[e] = "stream" /\ wire'[e].subs = 1
    /\ pc[e] \in {"stream", "flush"} => wire[e].subs = 1
    /\ Rewritten(store, store', flush_key(e)) => pc[e] = "flush" /\ pc'[e] = "stream"
    /\ pc[e] \in {"stream", "flush"} /\ pc'[e] \notin {"stream", "flush"} =>
         pc[e] = "stream" /\ pc'[e] = "sleep_end"
    /\ pc[e] = "sleep_end" /\ pc'[e] # "sleep_end" => pc'[e] = "connect"

C22_FlushEverySecond ==
  [][ \A e \in Exchanges :
        /\ (Rewritten(store, store', flush_key(e))
              \/ (pc[e] = "flush" /\ pc'[e] # "flush")) =>
             /\ pc[e] = "flush" /\ due[e] /\ ~due'[e]
             /\ \E vec \in ValueVecs(local[e]) :
                  store' = Put(store, flush_key(e), vec)
             /\ local'[e] = local[e]
        /\ pc[e] = "stream" /\ ~due[e] /\ local'[e] # local[e] =>
             store' = store /\ pc'[e] # "flush"
        /\ ~due[e] => pc'[e] = pc[e] \/ pc'[e] # "flush"
        /\ pc[e] \notin {"stream", "flush"} /\ pc'[e] = "stream" => ~due'[e]
        /\ ~due[e] /\ due'[e] =>
             pc[e] = "stream" /\ pc' = pc /\ local' = local /\ store' = store
    ]_vars

\* C22 witness: after a flush of a non-empty map, a message handled within
\* the second has changed the local map only
C22_Witness ==
  \E e \in Exchanges :
    /\ pc[e] = "stream"
    /\ ~due[e]
    /\ StoredUnder(store, flush_key(e)) # <<>>
    /\ StoredUnder(store, flush_key(e)) \notin ValueVecs(local[e])
    /\ Cardinality(DOMAIN local[e]) >= Len(StoredUnder(store, flush_key(e)))

OpPing == Ev("text", Body("op_ping", <<>>))

PingFrame == Ev("ping", Body("none", <<>>))

\* C23: the handling of a {"op":"ping"} text by the bybit connector writes
\* the {"op":"pong"} text and leaves the local map as it is, and the handling
\* of a Ping frame by the bybit, gateio and kucoin connectors writes a Pong
\* frame, each within the handling of that message, so before the next one is
\* read; nothing else makes these connectors write a pong.
C23_PingAnswered ==
  [][ \A e \in Subscribers :
        /\ e = "bybit" /\ Recv(e, OpPing) =>
             wire'[e].reply = "op_pong" /\ local'[e] = local[e]
        /\ Recv(e, PingFrame) => wire'[e].reply = "pong"
        /\ wire'[e].reply # wire[e].reply /\ wire'[e].reply # "none" =>
             Recv(e, OpPing) \/ Recv(e, PingFrame)
    ]_vars

\* C23 witness: the bybit connector has answered an application-level ping
\* in a session that holds accepted entries
C23_Witness ==
  /\ wire["bybit"].reply = "op_pong"
  /\ local["bybit"] # EmptyMap

\* C24: whatever the result of the subscribe send, the connector goes on to
\* the streaming loop on that connection, and on a connection whose
\* subscribe send failed every ticker message is handled as on any other:
\* its accepted entries are put in the local map.
C24_SubscribeFailureKeepsConnection ==
  [][ \A e \in Subscribers :
        /\ pc[e] = "subscribe" /\ pc'[e] # "subscribe" => pc'[e] = "stream"
        /\ ~wire[e].sub_ok /\ pc[e] = "stream" =>
             \A ev \in Events(e) \cup OddEvents(e) :
               Recv(e, ev) /\ ev.k = "text" /\ ev.body.j \in TickerShapes =>
                 /\ local'[e] = on_items(e, local[e], ev.body.items)
                 /\ pc'[e] \in {"stream", "flush"}
    ]_vars

\* C24 witness: on a connection whose subscribe send failed, tickers have
\* been accepted and flushed
C24_Witness ==
  \E e \in Subscribers :
    /\ ~wire[e].sub_ok
    /\ pc[e] = "stream"
    /\ local[e] # EmptyMap
    /\ StoredUnder(store, flush_key(e)) \in ValueVecs(local[e])

\* the length of a series of failed subscribe sends after which a connector
\* is expected to take the connect-failure path
SubscribeFailures == 3

\* C25 (as stated): a connector whose subscribe send has failed on each of
\* its last SubscribeFailures connections does not wait the fixed reconnect
\* delay again: it is on the connect-failure path, and where there is a
\* backoff it has grown by the next connect attempt.
C25_SubscribeFailuresBackOff ==
  \A e \in Subscribers :
    wire[e].failed >= SubscribeFailures =>
      /\ pc[e] # "sleep_end"
      /\ pc[e] = "connect" /\ HasBackoff(e) => backoff[e] > InitialBackoff

\* C29 (as stated): every PairPrice in the store has a non-empty base and a
\* non-empty quote.
C29_StoredSidesNonEmpty ==
  \A k \in DOMAIN store : \A i \in 1..Len(store[k]) :
    store[k][i].base # <<>> /\ store[k][i].quote # <<>>

\* the key a connector files a raw symbol under
KeyOf(e, sym) == IF e = "binance" THEN sym ELSE to_uppercase(sym)

\* the tickers of a list that carry the raw symbol sym and are accepted:
\* those the connector's handler files when it is given them alone
AcceptedFor(e, items, sym) ==
  {i \in 1..Len(items) :
     /\ items[i].sym = <<sym>>
     /\ on_item(e, EmptyMap, items[i]) # EmptyMap}

\* C30: the vector collected from the local map after a ticker message holds
\* one PairPrice per key of the map, and the handling of the message leaves
\* under the key of each raw symbol the entry of the last accepted ticker the
\* message carries for it, or, when it carries none that is accepted, what
\* was there before (an entry or none); keys of symbols the message does not
\* carry are left alone.
C30_LatestAcceptedPerSymbol ==
  LET e == sin.connector
      items == sin.items
      carried == {items[i].sym[1] : i \in {j \in 1..Len(items) : items[j].sym # <<>>}}
  IN  /\ Len(sout) >= 1 =>
           /\ \A sym \in carried :
                LET acc == AcceptedFor(e, items, sym)
                    k == KeyOf(e, sym)
                IN  IF acc = {}
                    THEN /\ (k \in DOMAIN sout[1]) = (k \in DOMAIN sin.local)
                         /\ k \in DOMAIN sin.local => sout[1][k] = sin.local[k]
                    ELSE LET last == CHOOSE i \in acc : \A j \in acc : j <= i
                         IN  /\ k \in DOMAIN sout[1]
                             /\ sout[1][k] = on_item(e, EmptyMap, items[last])[k]
           /\ \A k \in (DOMAIN sin.local \cup DOMAIN sout[1])
                         \ {KeyOf(e, sym) : sym \in carried} :
                /\ k \in DOMAIN sin.local /\ k \in DOMAIN sout[1]
                /\ sout[1][k] = sin.local[k]
      /\ Len(sout) = 2 =>
           /\ Len(sout[2]) = Cardinality(DOMAIN sout[1])
           /\ \A k \in DOMAIN sout[1] : \E i \in 1..Len(sout[2]) : sout[2][i] = sout[1][k]

\* C30 witness: a map that held a symbol at price 3 has been given a message
\* with an accepted ticker of price 2 and then a rejected one for that symbol,
\* and the collected vector holds the one entry, of price 2
C30_Witness ==
  /\ Len(sout) = 2
  /\ DOMAIN sin.local = {KeyOf(sin.connector, Symbols(sin.connector)[1])}
  /\ sin.local[KeyOf(sin.connector, Symbols(sin.connector)[1])].price = Three
  /\ Len(sin.items) = 2
  /\ AcceptedFor(sin.connector, sin.items, Symbols(sin.connector)[1]) = {1}
  /\ Len(sout[2]) = 1
  /\ sout[2][1].price = Two

\* the recorded volume of the edge a -> b of the scanned graph, 0 if none
LiquidityOf(a, b) == volume_of(ScannedGraph.vol_map, a, b)

\* C31 (as stated): once the graph is built, every edge a -> b between
\* distinct currencies has its reverse b -> a, the two rates multiply to 1
\* and the two directions have the same liquidity.
C31_SymmetricEdges ==
  Len(sout) >= 1 =>
    LET adj == ScannedGraph.adj
    IN  \A a \in DOMAIN adj : \A b \in DOMAIN adj[a] \ {a} :
          /\ b \in DOMAIN adj /\ a \in DOMAIN adj[b]
          /\ FMul(adj[a][b], adj[b][a]) = One
          /\ LiquidityOf(a, b) = LiquidityOf(b, a)

\* the liquidities of the three legs of the cycle of the opportunity o
LegLiquidities(o) ==
  LET t == CycleOf(o)
  IN  {LiquidityOf(t[1], t[2]), LiquidityOf(t[2], t[3]), LiquidityOf(t[3], t[1])}

\* C32: the liquidity score of every emitted opportunity is the liquidity of
\* one of the three legs of its cycle, and no leg has less.
C32_ScoreIsBottleneck ==
  \A k \in 1..Len(sout) : \A i \in 1..Len(sout[k]) :
    /\ sout[k][i].score_liquidity \in LegLiquidities(sout[k][i])
    /\ \A v \in LegLiquidities(sout[k][i]) : ~FLess(v, sout[k][i].score_liquidity)

\* C32 witness: the cycle with the leg volumes 5, 3 and 1 has been emitted
\* with the score 1
C32_Witness ==
  /\ Len(sout) >= 1
  /\ sin.pairs = Triangle(Five, Three, One)
  /\ Len(sout[1]) = 1
  /\ LegLiquidities(sout[1][1]) = {Five, Three, One}
  /\ sout[1][1].score_liquidity = One

\* the natural a mantissa below 2^42 stands for
NatOf(p) == Limb(p, 1) + (16384 * Limb(p, 2)) + (268435456 * Limb(p, 3))

\* the whole hundredths in |x|, for finite x with |x| * 100 below 2^31
Hundredths(x) ==
  LET floor(y) == IF y.s = 0 THEN 0
                  ELSE IF y.e >= 0 THEN NatOf(BigShl(y.m, y.e))
                  ELSE NatOf(BigShr(y.m, -y.e))
  IN  floor(FMul(x, Hundred))

\* x is a value rounded to two decimals: the f64 nearest to k / 100 for an
\* integer k
TwoDecimals(x) ==
  /\ is_finite(x)
  /\ LET near(h) == \E k \in {h - 1, h, h + 1} : x = F(x.s * k, 100)
     IN  near(Hundredths(x))

\* C33 (as stated): profit_before and profit_after of every emitted
\* opportunity are rounded to two decimal places.
C33_TwoDecimalProfits ==
  \A k \in 1..Len(sout) : \A i \in 1..Len(sout[k]) :
    /\ TwoDecimals(sout[k][i].profit_before)
    /\ TwoDecimals(sout[k][i].profit_after)

\* the two currencies of a pair, as the graph names them
EndsOf(p) == {to_uppercase(p.base), to_uppercase(p.quote)}

\* the entries of the scanned list that are the last over their two distinct
\* currencies and that the build does not skip (spot, with a price above 0)
LastEntries ==
  {i \in 1..Len(sin.pairs) :
     /\ Cardinality(EndsOf(sin.pairs[i])) = 2
     /\ sin.pairs[i].is_spot /\ GtZero(sin.pairs[i].price)
     /\ \A j \in i + 1..Len(sin.pairs) : EndsOf(sin.pairs[j]) # EndsOf(sin.pairs[i])}

\* C38: for every entry that is the last of the list over its two
\* currencies, the graph holds the rate price from its base to its quote,
\* 1 / price from its quote to its base, and its volume as the liquidity of
\* both directions, whatever earlier entries over the two currencies said.
C38_LastEntryWins ==
  Len(sout) >= 1 =>
    \A i \in LastEntries :
      LET p == sin.pairs[i]
          a == to_uppercase(p.base)
          b == to_uppercase(p.quote)
      IN  /\ Get2(ScannedGraph.adj, a, b) = <<p.price>>
          /\ Get2(ScannedGraph.adj, b, a) = <<FDiv(One, p.price)>>
          /\ Get2(ScannedGraph.vol_map, a, b) = <<p.volume>>
          /\ Get2(ScannedGraph.vol_map, b, a) = <<p.volume>>

\* C38 witness: a list with A/B = 2 and, later, B/A = 0.25 has been
\* scanned, and the graph holds A -> B at 4 and B -> A at 0.25, with the
\* volume 9 of the later entry
C38_Witness ==
  /\ Len(sout) >= 1
  /\ sin.pairs = ReversedPair
  /\ 4 \in LastEntries
  /\ RateOf(cA, cB) = Four
  /\ RateOf(cB, cA) = Quarter
  /\ LiquidityOf(cA, cB) = Nine

\* the currencies of the cycle of an opportunity
CurrenciesOf(o) == {CycleOf(o)[j] : j \in 1..3}

\* the pairs of opportunities of a list that are over the same three
\* distinct currencies
SameCurrencies(out) ==
  {ij \in (1..Len(out)) \X (1..Len(out)) :
     /\ ij[1] # ij[2]
     /\ Cardinality(CurrenciesOf(out[ij[1]])) = 3
     /\ CurrenciesOf(out[ij[1]]) = CurrenciesOf(out[ij[2]])}

C36_NeverBackToEmpty ==
  [][ \A e \in Exchanges :
        StoredUnder(store, flush_key(e)) # <<>> =>
          StoredUnder(store', flush_key(e)) # <<>>
    ]_vars

\* C37 (as stated): start_all_workers returns for every handle it is given,
\* and when it returns the store holds the content of `initial` and all four
\* connector tasks are spawned.
C37_StartReturns ==
  /\ <>started
  /\ [][ ~started /\ started' =>
           /\ store' = net.initial.content
           /\ \A e \in Exchanges : pc'[e] # "unspawned"
       ]_vars

\* accepted entries of connector e that the store does not show under its key
Unflushed(e) ==
  LET vec == StoredUnder(store, flush_key(e))
  IN  {k \in DOMAIN local[e] : \A i \in 1..Len(vec) : vec[i] # local[e][k]}

\* C35 (as stated): while a session stays open, an entry its connector has
\* accepted reaches the store, whether or not the peer sends anything more.
C35_AcceptedIsFlushed ==
  \A e \in Exchanges :
    (pc[e] \in {"stream", "flush"} /\ Unflushed(e) # {})
      ~> (pc[e] \notin {"stream", "flush"} \/ Unflushed(e) = {})

\* tasks of the call whose fetch never returns
Unanswered == {k \in 1..Len(call.tasks) : sin.fetch[call.tasks[k].name] = "never"}

\* C34: every call of scan_handler ends with a response, whatever the
\* fetches do.  A 200 response reports each task whose fetch never returned
\* as a timeout, reached at the first reading of the clock at or after the
\* task's limit of 15 s (20 s for kucoin), holds
\* an error for every task that gave no pairs, and carries the result of the
\* scan of the merged pairs.
C34_EveryScanCompletes ==
  /\ <>(call.pc = "done")
  /\ [](call.pc = "done" /\ call.response.status = "OK" =>
          /\ \A k \in Unanswered :
               /\ call.tasks[k].res.val = <<call.tasks[k].name, "timeout">>
               /\ call.tasks[k].elapsed >= fetch_limit(call.tasks[k].name)
               /\ call.tasks[k].elapsed < fetch_limit(call.tasks[k].name) + ClockStep
               /\ \E j \in 1..Len(call.response.errors) :
                    call.response.errors[j] = call.tasks[k].res.val
          /\ Len(call.response.errors) + call.response.count_pairs \div Len(FetchedPairs)
               = Len(call.tasks)
          /\ call.response.results
               \in scan_triangles(call.merged_pairs, sin.min_profit))

\* C34 witness: a request naming kucoin, whose fetch never returns, and an
\* exchange that delivers has been answered with 200, the kucoin timeout
\* after 20 s among the errors and an opportunity among the results
C34_Witness ==
  /\ call.pc = "done"
  /\ call.response.status = "OK"
  /\ sin.fetch["kucoin"] = "never"
  /\ \E k \in Unanswered :
       /\ call.tasks[k].name = "kucoin"
       /\ call.tasks[k].elapsed >= KucoinFetchTimeout
  /\ call.response.errors = << <<"kucoin", "timeout">> >>
  /\ call.response.count_opportunities >= 1

====
